---- MODULE Spec2Model ----
(***************************************************************************)
(* Model of the monolithic-builder orchestration logic.                    *)
(*                                                                         *)
(*   build-container   : buildcontainer.Builder.Execute and the functions  *)
(*                       it calls (image.CheckImageExists, git.Clone,      *)
(*                       prefetch.FetchDependencies, image.BuildAndPush).  *)
(*   build-image-index : imageindex.Builder.Execute / buildImageIndex.     *)
(*                                                                         *)
(* One run of one sub-command is one behaviour.  Every external process,   *)
(* library call and result-file write is a step whose outcome is chosen    *)
(* by the environment.  Errors are modelled as chains (sequences) of       *)
(* messages: fmt.Errorf("msg: %w", err) prepends "msg" to the chain, the   *)
(* last element is the originating cause.                                  *)
(***************************************************************************)
EXTENDS Integers, Sequences, FiniteSets, TLC

\* ------------------------------------------------------------------ bounds
\* Largest number of per-architecture image references of an index run.
MaxImages == 2
\* Longest list of build arguments handed to the build command builder.
MaxBuildArgs == 2
\* Longest inner argument list handed to the rootless wrapper on its own.
MaxInnerArgs == 2
\* Longest duration string, of those enumerated, handed to the duration parser.
MaxDurationLen == 3

\* --------------------------------------------------------------- strings
\* A program string is a sequence of tokens, so that strings.Split and
\* strings.TrimSpace can be computed; the empty string is <<>>.
S(tok) == <<tok>>
Empty == <<>>

\* Content of a result file that does not exist.
NoFile == <<"<no file>">>
\* Content a result file may hold from before the run.
Leftover == <<"<left over>">>
\* A nil error.
NoErr == <<>>

\* The names of the result files of the two pipelines, in program order.
BuildResultNames == <<"build", "commit", "url", "IMAGE_URL", "IMAGE_DIGEST">>
IndexResultNames == <<"IMAGE_URL", "IMAGE_DIGEST">>
ResultNames == {"build", "commit", "url", "IMAGE_URL", "IMAGE_DIGEST"}

\* Values the environment can supply.
ImageURLs == {S("quay.io/test/image:latest")}
GitURLs == {S("https://example.com/repo.git")}
CommitSHAs == {S("1111111"), S("2222222")}
\* Config.CommitSHA (COMMIT_SHA): not set, or a commit id of its own.
ConfiguredCommits == {Empty, S("3333333")}
PrefetchInputs == {"", "gomod"}
ConfigFileContents == {"", "cfg"}
ExpiresAfter == {Empty, <<"2", "d">>}

\* What 'skopeo inspect' can print on stdout when it exits zero: a JSON
\* object with a string Digest, a JSON object whose Digest is not a string,
\* a JSON object without Digest, or text that is not a JSON object.
InspectOutputs ==
    { [isObject |-> TRUE,  digestKind |-> "string", digestVal |-> S("sha256:abc")],
      [isObject |-> TRUE,  digestKind |-> "string", digestVal |-> Empty],
      [isObject |-> TRUE,  digestKind |-> "number", digestVal |-> Empty],
      [isObject |-> TRUE,  digestKind |-> "absent", digestVal |-> Empty],
      [isObject |-> FALSE, digestKind |-> "absent", digestVal |-> Empty] }

\* What 'skopeo inspect --format {{.Digest}}' can print (index pipeline).
FormatOutputs == { <<"sha256:def", "\n">>, <<"\n">>, Empty }

\* Per-architecture image references: plain, with a digest suffix, and
\* with two '@' separators.
ImageRefs == { <<"repo">>, <<"repo", "@", "sha256:abc">>,
               <<"repo", "@", "sha256:abc", "@", "x">> }

RECURSIVE SeqsUpTo(_, _)
SeqsUpTo(T, n) ==
    IF n = 0 THEN {<<>>}
    ELSE LET shorter == SeqsUpTo(T, n - 1)
         IN shorter \cup {Append(q, x) : q \in {r \in shorter : Len(r) = n - 1}, x \in T}

BuildConfigs ==
    [ImageURL : ImageURLs, GitURL : GitURLs,
     Rebuild : BOOLEAN, SkipChecks : BOOLEAN,
     PrefetchInput : PrefetchInputs,
     Cachi2ConfigFileContent : ConfigFileContents,
     CommitSHA : ConfiguredCommits]

IndexConfigs ==
    [ImageURL : ImageURLs, Images : SeqsUpTo(ImageRefs, MaxImages),
     AlwaysBuildIndex : BOOLEAN, ImageExpiresAfter : ExpiresAfter]

VARIABLES
    mode,         \* which sub-command runs: "build" or "index"
    config,       \* the immutable configuration of the run
    imageExists,  \* registry state: does the destination image exist
    pc,           \* position of the run inside Execute
    shouldBuild,  \* Execute's local shouldBuild (FALSE before the check)
    gitResult,    \* Execute's local gitResult
    digest,       \* the digest local of Execute / BuildAndPush
    resultURL,    \* imageindex Execute's local resultImageURL
    addIdx,       \* buildImageIndex: next member of config.Images to add
    results,      \* the results directory: name -> content or NoFile
    writes,       \* names of the result files written, in order
    calls,        \* external steps invoked so far, with their outcome
    err,          \* the error Execute returned (NoErr while running / nil)
    cancelAt,     \* 0, or the number of the step in flight when ctx was cancelled
    argv,         \* the argument vector last built by a command builder
    prevArgv,     \* the vector argv was built from, or the one built before it
    parsed,       \* the time.Duration last returned by parseDuration
    repo,         \* the repository git.Clone works on, and the HEAD of its clone
    authSetup     \* prefetch: "none", or how setupAuthentication ended

vars == <<mode, config, imageExists, pc, shouldBuild, gitResult, digest,
          resultURL, addIdx, results, writes, calls, err, cancelAt, argv,
          prevArgv, parsed, repo, authSetup>>

\* the locals of Execute, for UNCHANGED
locals == <<shouldBuild, gitResult, digest, resultURL, addIdx>>
env == <<mode, config, imageExists, repo>>
files == <<results, writes>>
\* what no pipeline step but the build assigns
outside == <<cancelAt, argv, prevArgv, parsed, authSetup>>
\* the state of a pipeline run, which no command builder assigns
run == <<imageExists, repo, authSetup, cancelAt, locals, files, calls, err>>

\* ----------------------------------------------------------------- helpers
\* fmt.Errorf("msg: %w", e)
Wrap(msg, e) == <<msg>> \o e

\* The error a failed external process or library call returns.
ToolErr(op) == <<"exit: " \o op>>

Cause(e) == e[Len(e)]

\* The text of a string, for error messages.
RECURSIVE Str(_)
Str(s) == IF s = <<>> THEN "" ELSE Head(s) \o Str(Tail(s))

\* What a process printed, for the calls whose output the program reads.
NoOutput == [none |-> TRUE]

Call(op, arg, ok, out) == [op |-> op, arg |-> arg, ok |-> ok, out |-> out]

Invoked(op) == \E i \in 1..Len(calls) : calls[i].op = op

CountOp(op) == Cardinality({i \in 1..Len(calls) : calls[i].op = op})

\* A result file the run has written.
Written(name) == \E i \in 1..Len(writes) : writes[i] = name

\* return err / return nil from Execute
Return(e) ==
    /\ pc' = IF e = NoErr THEN "Done" ELSE "Failed"
    /\ err' = e

Goto(l) == pc' = l /\ UNCHANGED err

\* Faulty variant: the value is appended to what the file already holds.
writeResult_Appends(name, value, ok) ==
    IF ok
    THEN /\ results' = [results EXCEPT ![name] = IF @ = NoFile THEN value ELSE @ \o value]
         /\ writes' = Append(writes, name)
    ELSE UNCHANGED <<results, writes>>

\* writeResult(name, value): os.WriteFile either succeeds, replacing the
\* whole content of the file, or fails and records no value.
writeResult(name, value, ok) ==
    IF ok
    THEN /\ results' = [results EXCEPT ![name] = value]
         /\ writes' = Append(writes, name)
    ELSE UNCHANGED <<results, writes>>

\* Faulty variant: the error of os.WriteFile is dropped.
WriteErr_Dropped(ok) == NoErr

\* The error writeResult returns: that of os.WriteFile.
WriteErr(ok) == IF ok THEN NoErr ELSE ToolErr("write")

\* exec.CommandContext(ctx, ...): once ctx is done the process in flight is
\* killed, and a process started later fails at once; the call cannot
\* report success.
CtxAllows(ok) == cancelAt # 0 => ~ok

\* runner.Run / runner.RunWithOutput / exec.Cmd.Run: one external process,
\* started and waited for.
Run(op, arg, ok) ==
    /\ CtxAllows(ok)
    /\ calls' = Append(calls, Call(op, arg, ok, NoOutput))

\* runner.RunWithOutput / exec.Cmd.Output: the same, keeping stdout.
RunWithOutput(op, arg, ok, out) ==
    /\ CtxAllows(ok)
    /\ calls' = Append(calls, Call(op, arg, ok, out))

\* ================================================================ durations
\* A time.Duration: int64 nanoseconds, held here as whole minutes.  The
\* int64 product of min minutes and times that does not fit 63 bits wraps
\* around; it is kept as its two factors (times # 1).
MaxMinutes == 153722867
MaxHours == 2562047
Dur(n) == [min |-> n, times |-> 1]
Mul(d, k) == IF d.min <= MaxMinutes \div k THEN Dur(d.min * k) ELSE [min |-> d.min, times |-> k]
\* No duration parsed yet.
NoDuration == Dur(0)

\* strings.HasSuffix(s, c) for a one-character suffix.
HasSuffix(s, c) == Len(s) >= 1 /\ s[Len(s)] = c

DigitVal(c) ==
    CASE c = "0" -> 0 [] c = "1" -> 1 [] c = "2" -> 2 [] c = "3" -> 3
      [] c = "4" -> 4 [] c = "5" -> 5 [] c = "6" -> 6 [] c = "7" -> 7
      [] c = "8" -> 8 [] c = "9" -> 9 [] OTHER -> -1
RECURSIVE DecVal(_)
DecVal(s) == IF s = <<>> THEN 0 ELSE 10 * DecVal(SubSeq(s, 1, Len(s) - 1)) + DigitVal(s[Len(s)])
\* The length of the longest prefix of s made of digits / of no digit.
RECURSIVE LeadingDigits(_)
LeadingDigits(s) ==
    IF s = <<>> \/ DigitVal(Head(s)) < 0 THEN 0 ELSE 1 + LeadingDigits(Tail(s))
RECURSIVE LeadingUnit(_)
LeadingUnit(s) ==
    IF s = <<>> \/ DigitVal(Head(s)) >= 0 THEN 0 ELSE 1 + LeadingUnit(Tail(s))
ParseError == [ok |-> FALSE, d |-> Dur(0)]

\* The loop of time.ParseDuration: a decimal number, a unit, and again to the
\* end of the string; a missing number, a missing or unknown unit or a value
\* beyond int64 nanoseconds is an error.  Of the units only h and m, and no
\* sign and no fraction: whole minutes.
RECURSIVE parseComponents(_, _)
parseComponents(s, acc) ==
    IF s = <<>> THEN [ok |-> TRUE, d |-> Dur(acc)]
    ELSE LET n == LeadingDigits(s)
             rest == SubSeq(s, n + 1, Len(s))
             u == LeadingUnit(rest)
             unit == SubSeq(rest, 1, u)
             v == DecVal(SubSeq(s, 1, n))
         IN IF n = 0 \/ n > 9 \/ u = 0 THEN ParseError
            ELSE IF unit = <<"h">> /\ v <= MaxHours /\ acc + v * 60 <= MaxMinutes
            THEN parseComponents(SubSeq(rest, u + 1, Len(rest)), acc + v * 60)
            ELSE IF unit = <<"m">> /\ v <= MaxMinutes /\ acc + v <= MaxMinutes
            THEN parseComponents(SubSeq(rest, u + 1, Len(rest)), acc + v)
            ELSE ParseError

\* time.ParseDuration
ParseDuration(s) ==
    IF s = <<"0">> THEN [ok |-> TRUE, d |-> Dur(0)]
    ELSE IF s = <<>> THEN ParseError
    ELSE parseComponents(s, 0)

\* parseDuration: hours, days and weeks by suffix, then the standard parser,
\* then zero.
parseDuration(duration) ==
    LET cut == SubSeq(duration, 1, Len(duration) - 1)
    IN IF duration = Empty THEN Dur(0)
       ELSE IF HasSuffix(duration, "h") /\ ParseDuration(duration).ok
       THEN ParseDuration(duration).d
       ELSE IF HasSuffix(duration, "d") /\ Len(duration) > 1
               /\ ParseDuration(Append(cut, "h")).ok
       THEN Mul(ParseDuration(Append(cut, "h")).d, 24)
       ELSE IF HasSuffix(duration, "w") /\ Len(duration) > 1
               /\ ParseDuration(Append(cut, "h")).ok
       THEN Mul(ParseDuration(Append(cut, "h")).d, 24 * 7)
       ELSE IF ParseDuration(duration).ok THEN ParseDuration(duration).d
       ELSE Dur(0)

\* imageindex Builder.parseDuration: the same steps as parseDuration, with
\* strings.TrimSuffix in place of the slice.
Index_parseDuration(s) ==
    LET cut == SubSeq(s, 1, Len(s) - 1)
    IN IF s = Empty THEN Dur(0)
       ELSE IF HasSuffix(s, "h") /\ ParseDuration(s).ok
       THEN ParseDuration(s).d
       ELSE IF HasSuffix(s, "d") /\ cut # Empty /\ ParseDuration(Append(cut, "h")).ok
       THEN Mul(ParseDuration(Append(cut, "h")).d, 24)
       ELSE IF HasSuffix(s, "w") /\ cut # Empty /\ ParseDuration(Append(cut, "h")).ok
       THEN Mul(ParseDuration(Append(cut, "h")).d, 24 * 7)
       ELSE IF ParseDuration(s).ok THEN ParseDuration(s).d
       ELSE Dur(0)

\* ==================================================== image command builders
\* pkg/image/commands.go.  A string is a sequence of tokens, an argument
\* vector a sequence of strings.
Dockerfiles == {S("./Dockerfile")}
Contexts == {S("."), S("/workspace/source")}
PrefetchPaths == {Empty, S("/workspace/cachi2")}
BuildArgsFiles == {Empty, S("args.conf")}
BuildArgEntries == {Empty, S("A=1"), S("--tls-verify=false")}
Durations == {Empty, <<"2", "d">>, <<"b", "o", "g", "u", "s">>}
\* time.Now(), in minutes.
Times == {0, 60}

\* image.BuildConfig
ArgConfigs ==
    [ImageURL : {S("quay.io/test/image:latest")},
     Dockerfile : Dockerfiles,
     Context : Contexts,
     Hermetic : BOOLEAN,
     PrefetchInput : {Empty, S("gomod")},
     PrefetchPath : PrefetchPaths,
     ImageExpiresAfter : Durations,
     CommitSHA : {Empty, S("1111111")},
     BuildArgs : SeqsUpTo(BuildArgEntries, MaxBuildArgs),
     BuildArgsFile : BuildArgsFiles,
     TLSVerify : BOOLEAN]

\* time.Now().Add(d).Format(time.RFC3339): one token naming the instant.
FormatRFC3339(now, d) ==
    IF d.times = 1 THEN <<"T+" \o ToString(now + d.min) \o "min">>
    ELSE <<"T+" \o ToString(now) \o "min+int64(" \o ToString(d.min) \o "min*"
               \o ToString(d.times) \o ")">>

\* Faulty variant: the push never disables TLS verification.
BuildahPushCommand_AlwaysVerifies(cfg) == <<S("push"), cfg.ImageURL>>

BuildahPushCommand(cfg) ==
    LET args1 == <<S("push")>>
        args2 == IF ~cfg.TLSVerify THEN Append(args1, S("--tls-verify=false")) ELSE args1
    IN Append(args2, cfg.ImageURL)

\* Faulty variant: the digest lookup names the bare reference.
SkopeoInspectCommand_Bare(imageURL, tlsVerify) ==
    IF ~tlsVerify THEN <<S("inspect"), S("--tls-verify=false"), imageURL>>
    ELSE <<S("inspect"), imageURL>>

SkopeoInspectCommand(imageURL, tlsVerify) ==
    LET args1 == <<S("inspect")>>
        args2 == IF ~tlsVerify THEN Append(args1, S("--tls-verify=false")) ELSE args1
    IN Append(args2, <<"docker://">> \o imageURL)

SkopeoExistsCommand(imageURL, tlsVerify) ==
    LET args1 == <<S("inspect"), S("--raw")>>
        args2 == IF ~tlsVerify THEN Append(args1, S("--tls-verify=false")) ELSE args1
    IN Append(args2, <<"docker://">> \o imageURL)

\* Faulty variant: empty entries are passed on.
RECURSIVE appendBuildArgs_KeepsEmpty(_, _)
appendBuildArgs_KeepsEmpty(args, rest) ==
    IF rest = <<>> THEN args
    ELSE appendBuildArgs_KeepsEmpty(args \o <<S("--build-arg"), Head(rest)>>, Tail(rest))

\* "for _, arg := range config.BuildArgs" (lines 25-29)
RECURSIVE appendBuildArgs(_, _)
appendBuildArgs(args, rest) ==
    IF rest = <<>> THEN args
    ELSE appendBuildArgs(IF Head(rest) # Empty
                         THEN args \o <<S("--build-arg"), Head(rest)>>
                         ELSE args,
                         Tail(rest))

\* Faulty variant: the prefetch input is not consulted.
appendHermetic_HermeticOnly(args, cfg) ==
    IF cfg.Hermetic THEN Append(args, S("--network=none")) ELSE args

\* "Configure hermetic build" (lines 37-43)
appendHermetic(args, cfg) ==
    IF cfg.Hermetic /\ cfg.PrefetchInput # Empty
    THEN LET a == IF cfg.PrefetchPath # Empty
                  THEN args \o <<S("--volume"), cfg.PrefetchPath \o <<":/tmp/cachi2:Z">>>>
                  ELSE args
         IN Append(a, S("--network=none"))
    ELSE args

\* Faulty variant: the labels are emitted before the build arguments.
BuildahBuildCommand_LabelsFirst(cfg, now) ==
    LET a1 == <<S("build"), S("--file"), cfg.Dockerfile, S("--tag"), cfg.ImageURL>>
        a2 == IF cfg.CommitSHA # Empty
              THEN a1 \o <<S("--label"), <<"io.konflux.commit=">> \o cfg.CommitSHA>>
              ELSE a1
        a3 == appendBuildArgs(a2, cfg.BuildArgs)
    IN Append(a3, S("."))

BuildahBuildCommand(cfg, now) ==
    LET a1 == <<S("build"), S("--file"), cfg.Dockerfile, S("--tag"), cfg.ImageURL>>
        a2 == IF ~cfg.TLSVerify THEN Append(a1, S("--tls-verify=false")) ELSE a1
        a3 == appendBuildArgs(a2, cfg.BuildArgs)
        a4 == IF cfg.BuildArgsFile # Empty
              THEN a3 \o <<S("--build-arg-file"), cfg.BuildArgsFile>>
              ELSE a3
        a5 == appendHermetic(a4, cfg)
        a6 == IF cfg.CommitSHA # Empty
              THEN a5 \o <<S("--label"), <<"io.konflux.commit=">> \o cfg.CommitSHA>>
              ELSE a5
        a7 == IF cfg.ImageExpiresAfter # Empty
              THEN a6 \o <<S("--label"),
                           <<"quay.expires-after=">>
                               \o FormatRFC3339(now, parseDuration(cfg.ImageExpiresAfter))>>
              ELSE a6
    IN Append(a7, S("."))

\* The backquote character, which a string of this module cannot hold.
Backquote == "<backquote>"

\* fmt.Sprintf("%q", arg): a double-quoted Go string literal; the double
\* quote and the backslash are escaped with a backslash, a newline is
\* written \n, every other character stands for itself.
RECURSIVE escape(_)
escape(s) ==
    IF s = <<>> THEN <<>>
    ELSE (CASE Head(s) \in {"\"", "\\"} -> <<"\\", Head(s)>>
            [] Head(s) = "\n" -> <<"\\", "n">>
            [] OTHER -> <<Head(s)>>) \o escape(Tail(s))
Quote(s) == <<"\"">> \o escape(s) \o <<"\"">>

\* strings.Join(elems, sep)
RECURSIVE Join(_, _)
Join(elems, sep) ==
    IF elems = <<>> THEN <<>>
    ELSE IF Len(elems) = 1 THEN elems[1]
    ELSE elems[1] \o sep \o Join(Tail(elems), sep)

\* Faulty variant: the inner arguments are passed on as elements of their own.
UnshareCommand_Spliced(buildahArgs, context) ==
    <<S("unshare"), S("-Uf"), S("--keep-caps"), S("-r"),
      S("--map-users"), S("1,1,65536"), S("--map-groups"), S("1,1,65536"),
      S("-w"), context, S("--mount"), S("--"), S("sh"), S("-c"), S("buildah")>>
        \o buildahArgs

\* Faulty variant: the wrapper stays in the caller's working directory.
UnshareCommand_NoWorkdir(buildahArgs, context) ==
    LET buildahCmdArray == <<S("buildah")>> \o buildahArgs
        quotedArgs == [i \in 1..Len(buildahCmdArray) |-> Quote(buildahCmdArray[i])]
    IN <<S("unshare"), S("-Uf"), S("--keep-caps"), S("-r"),
         S("--map-users"), S("1,1,65536"), S("--map-groups"), S("1,1,65536"),
         S("-w"), S("."), S("--mount"), S("--"), S("sh"), S("-c"),
         Join(quotedArgs, <<" ">>)>>

UnshareCommand(buildahArgs, context) ==
    LET buildahCmdArray == <<S("buildah")>> \o buildahArgs
        quotedArgs == [i \in 1..Len(buildahCmdArray) |-> Quote(buildahCmdArray[i])]
        buildahCmd == Join(quotedArgs, <<" ">>)
    IN <<S("unshare"), S("-Uf"), S("--keep-caps"), S("-r"),
         S("--map-users"), S("1,1,65536"), S("--map-groups"), S("1,1,65536"),
         S("-w"), context, S("--mount"), S("--"), S("sh"), S("-c"), buildahCmd>>

\* "sh", "-c", buildahCmd: how the inner shell splits the string into
\* words.  Inside double quotes a backslash escapes only $, backquote, double
\* quote and backslash, $name is replaced by the value of the variable and a
\* backquoted span by the output of the command it holds.
ShellMeta == {" ", "$", Backquote, "\\", "\"", "\n"}
VarValues == {Empty, S("/root")}
CommandOutput == "<command output>"
SyntaxError == <<S("<syntax error>")>>
RECURSIVE IndexOf(_, _, _)
IndexOf(s, c, i) ==
    IF i > Len(s) THEN 0 ELSE IF s[i] = c THEN i ELSE IndexOf(s, c, i + 1)
RECURSIVE shScan(_, _, _, _, _)
shScan(rest, inQuotes, cur, has, val) ==
    IF rest = <<>>
    THEN IF inQuotes THEN SyntaxError ELSE IF has THEN <<cur>> ELSE <<>>
    ELSE LET c == Head(rest)
             r == Tail(rest)
         IN IF ~inQuotes
            THEN CASE c = " " ->
                        (IF has THEN <<cur>> ELSE <<>>) \o shScan(r, FALSE, <<>>, FALSE, val)
                   [] c = "\"" -> shScan(r, TRUE, cur, TRUE, val)
                   [] OTHER -> shScan(r, FALSE, Append(cur, c), TRUE, val)
            ELSE CASE c = "\"" -> shScan(r, FALSE, cur, has, val)
                   [] c = "\\" ->
                        IF r = <<>> THEN SyntaxError
                        ELSE IF Head(r) \in {"$", Backquote, "\"", "\\"}
                        THEN shScan(Tail(r), TRUE, Append(cur, Head(r)), has, val)
                        ELSE IF Head(r) = "\n" THEN shScan(Tail(r), TRUE, cur, has, val)
                        ELSE shScan(r, TRUE, Append(cur, c), has, val)
                   [] c = "$" ->
                        IF r # <<>> /\ Head(r) \notin ShellMeta
                        THEN shScan(Tail(r), TRUE, cur \o val, has, val)
                        ELSE shScan(r, TRUE, Append(cur, c), has, val)
                   [] c = Backquote ->
                        IF IndexOf(r, Backquote, 1) = 0 THEN SyntaxError
                        ELSE shScan(SubSeq(r, IndexOf(r, Backquote, 1) + 1, Len(r)), TRUE,
                                    Append(cur, CommandOutput), has, val)
                   [] OTHER -> shScan(r, TRUE, Append(cur, c), has, val)
ShellWords(str, val) == shScan(str, FALSE, <<>>, FALSE, val)

\* expirationTime := time.Now().Add(parseDuration(config.ImageExpiresAfter)):
\* the duration parser, called on the configured string.
Call_parseDuration ==
    /\ mode = "duration" /\ pc = "Start"
    /\ parsed' = parseDuration(config.ImageExpiresAfter)
    /\ pc' = "parseDuration"
    /\ UNCHANGED <<mode, config, run, argv, prevArgv>>

\* One call of each builder, on a configuration and at a time of the
\* caller's choosing.
Call_BuildahBuildCommand ==
    /\ mode = "args" /\ pc = "Start"
    /\ \E now \in Times : argv' = BuildahBuildCommand(config, now)
    /\ pc' = "BuildahBuildCommand"
    /\ UNCHANGED <<mode, config, run, prevArgv, parsed>>

Call_BuildahPushCommand ==
    /\ mode = "args" /\ pc = "Start"
    /\ argv' = BuildahPushCommand(config)
    /\ pc' = "BuildahPushCommand"
    /\ UNCHANGED <<mode, config, run, prevArgv, parsed>>

Call_SkopeoInspectCommand ==
    /\ mode = "args" /\ pc = "Start"
    /\ argv' = SkopeoInspectCommand(config.ImageURL, config.TLSVerify)
    /\ pc' = "SkopeoInspectCommand"
    /\ UNCHANGED <<mode, config, run, prevArgv, parsed>>

Call_SkopeoExistsCommand ==
    /\ mode = "args" /\ pc = "Start"
    /\ argv' = SkopeoExistsCommand(config.ImageURL, config.TLSVerify)
    /\ pc' = "SkopeoExistsCommand"
    /\ UNCHANGED <<mode, config, run, prevArgv, parsed>>

\* BuildAndPush wraps the build vector: UnshareCommand(buildArgs,
\* config.Context).
Call_UnshareCommand ==
    /\ mode \in {"args", "wrap"} /\ pc = "BuildahBuildCommand"
    /\ prevArgv' = argv
    /\ argv' = UnshareCommand(argv, config.Context)
    /\ pc' = "UnshareCommand"
    /\ UNCHANGED <<mode, config, run, parsed>>

\* The same configuration is handed to BuildahBuildCommand a second time.
Recall_BuildahBuildCommand ==
    /\ mode = "args" /\ pc = "BuildahBuildCommand"
    /\ prevArgv' = argv
    /\ \E now \in Times : argv' = BuildahBuildCommand(config, now)
    /\ pc' = "BuildahBuildCommand again"
    /\ UNCHANGED <<mode, config, run, parsed>>

NextArgs ==
    \/ Call_BuildahBuildCommand
    \/ Call_UnshareCommand
    \/ Recall_BuildahBuildCommand
    \/ Call_BuildahPushCommand
    \/ Call_SkopeoInspectCommand
    \/ Call_SkopeoExistsCommand

\* ============================================================ build-container
\* --------------------------------------------------- image.CheckImageExists
\* Faulty variant: the probe's exit status is ignored and the image reported present.
CheckImageExists_AlwaysExists(runOk) == [exists |-> TRUE, err |-> NoErr]

CheckImageExists(runOk) == [exists |-> runOk, err |-> NoErr]

\* ------------------------------------- Builder.initializeAndCheckBuild
\* Faulty variant: SkipChecks is forgotten.
AlwaysBuild_RebuildOnly(cfg) == cfg.Rebuild

AlwaysBuild(cfg) == cfg.Rebuild \/ cfg.SkipChecks

\* Faulty variant: an existing image does not suppress the build.
ShouldBuildFrom_Always(r) == TRUE

ShouldBuildFrom(r) == IF r.err # NoErr THEN TRUE ELSE ~r.exists

initializeAndCheckBuild ==
    /\ mode = "build" /\ pc = "Start"
    /\ IF AlwaysBuild(config)
       THEN /\ shouldBuild' = TRUE
            /\ UNCHANGED calls
       ELSE \E fault \in BOOLEAN :
              \* the probe exits zero only if the image is there and the
              \* registry could be reached
              LET runOk == imageExists /\ ~fault
              IN /\ Run("skopeo inspect --raw", config.ImageURL, runOk)
                 /\ shouldBuild' = ShouldBuildFrom(CheckImageExists(runOk))
    /\ Goto("WriteBuild")
    /\ UNCHANGED <<env, outside, files, gitResult, digest, resultURL, addIdx>>

\* ------------------------------------------------------- Builder.Execute
\* fmt.Sprintf("%t", shouldBuild)
FormatBool(b) == IF b THEN S("true") ELSE S("false")

WriteBuild ==
    /\ mode = "build" /\ pc = "WriteBuild"
    /\ \E ok \in BOOLEAN :
         /\ writeResult("build", FormatBool(shouldBuild), ok)
         /\ IF WriteErr(ok) = NoErr THEN Goto("Clone")
            ELSE Return(Wrap("failed to write build result", WriteErr(ok)))
    /\ UNCHANGED <<env, outside, locals, calls>>

\* Faulty variant: a failed clone is reported as a success.
Clone_ErrorSwallowed(ok, sha) ==
    [res |-> [CommitSHA |-> sha, URL |-> config.GitURL], err |-> NoErr]

\* git.Clone, as far as Execute sees it: it fails, or returns the commit it
\* checked out and the configured URL.
Clone(ok, sha) ==
    IF ok THEN [res |-> [CommitSHA |-> sha, URL |-> config.GitURL], err |-> NoErr]
    ELSE [res |-> [CommitSHA |-> Empty, URL |-> Empty],
          err |-> Wrap("git clone failed", ToolErr("git clone"))]

cloneRepository ==
    /\ mode = "build" /\ pc = "Clone"
    /\ \E ok \in BOOLEAN, sha \in CommitSHAs :
         LET r == Clone(ok, sha)
         IN /\ Run("git clone", config.GitURL, ok)
            /\ IF r.err # NoErr
               THEN /\ Return(Wrap("git clone failed", r.err))
                    /\ UNCHANGED gitResult
               ELSE /\ gitResult' = r.res
                    /\ Goto("WriteCommit")
    /\ UNCHANGED <<env, outside, files, shouldBuild, digest, resultURL, addIdx>>

WriteCommit ==
    /\ mode = "build" /\ pc = "WriteCommit"
    /\ \E ok \in BOOLEAN :
         /\ writeResult("commit", gitResult.CommitSHA, ok)
         /\ IF WriteErr(ok) = NoErr THEN Goto("WriteUrl")
            ELSE Return(Wrap("failed to write commit result", WriteErr(ok)))
    /\ UNCHANGED <<env, outside, locals, calls>>

WriteUrl ==
    /\ mode = "build" /\ pc = "WriteUrl"
    /\ \E ok \in BOOLEAN :
         /\ writeResult("url", gitResult.URL, ok)
         /\ IF WriteErr(ok) = NoErr THEN Goto("WriteImageURL")
            ELSE Return(Wrap("failed to write url result", WriteErr(ok)))
    /\ UNCHANGED <<env, outside, locals, calls>>

\* Faulty variant: the skip decision is ignored after IMAGE_URL is written.
AfterImageURL_IgnoresSkip(build, cfg) ==
    IF cfg.PrefetchInput # "" THEN "Prefetch" ELSE "Build"
\* Faulty variant: the build path never prefetches.
AfterImageURL_NoPrefetch(build, cfg) ==
    IF ~build THEN "SkipDigest" ELSE "Build"
\* Faulty variant: the skip path returns right after IMAGE_URL is written.
AfterImageURL_SkipReturnsEarly(build, cfg) ==
    IF ~build THEN "Done"
    ELSE IF cfg.PrefetchInput # "" THEN "Prefetch"
    ELSE "Build"

\* Where Execute continues after IMAGE_URL is written (lines 70, 91, 98).
AfterImageURL(build, cfg) ==
    IF ~build THEN "SkipDigest"
    ELSE IF cfg.PrefetchInput # "" THEN "Prefetch"
    ELSE "Build"

WriteImageURL ==
    /\ mode = "build" /\ pc = "WriteImageURL"
    /\ \E ok \in BOOLEAN :
         /\ writeResult("IMAGE_URL", config.ImageURL, ok)
         /\ IF WriteErr(ok) = NoErr THEN Goto(AfterImageURL(shouldBuild, config))
            ELSE Return(Wrap("failed to write IMAGE_URL result", WriteErr(ok)))
    /\ UNCHANGED <<env, outside, locals, calls>>

\* ----------------------------------------------------- image.getImageDigest
\* Faulty variant: the exit status of skopeo is not checked.
getImageDigest_IgnoresExit(runOk, out) ==
    IF ~out.isObject
    THEN [digest |-> Empty, err |-> Wrap("failed to parse skopeo output", <<"json: invalid">>)]
    ELSE IF out.digestKind # "string"
    THEN [digest |-> Empty, err |-> <<"digest not found in skopeo output">>]
    ELSE [digest |-> out.digestVal, err |-> NoErr]

\* runOk: skopeo exited zero; out: what it printed.
getImageDigest(runOk, out) ==
    IF ~runOk
    THEN [digest |-> Empty, err |-> Wrap("skopeo inspect failed", ToolErr("skopeo inspect"))]
    ELSE IF ~out.isObject
    THEN [digest |-> Empty, err |-> Wrap("failed to parse skopeo output", <<"json: invalid">>)]
    ELSE IF out.digestKind # "string"
    THEN [digest |-> Empty, err |-> <<"digest not found in skopeo output">>]
    ELSE [digest |-> out.digestVal, err |-> NoErr]

\* image.GetImageDigest, the exported entry point Builder.getExistingImageDigest
\* calls: the digest lookup of getImageDigest.
GetImageDigest(runOk, out) == getImageDigest(runOk, out)

\* "if err != nil { Warn; digest = "" }" (builder.go 75-78, BuildAndPush 59-62)
DigestOrEmpty(r) == IF r.err # NoErr THEN Empty ELSE r.digest

\* ------------------------------------------- Builder.Execute, the skip path
getExistingImageDigest ==
    /\ mode = "build" /\ pc = "SkipDigest"
    /\ \E runOk \in BOOLEAN, out \in InspectOutputs :
         /\ RunWithOutput("skopeo inspect", config.ImageURL, runOk, out)
         /\ digest' = DigestOrEmpty(GetImageDigest(runOk, out))
    /\ Goto("WriteDigestSkip")
    /\ UNCHANGED <<env, outside, files, shouldBuild, gitResult, resultURL, addIdx>>

WriteDigestSkip ==
    /\ mode = "build" /\ pc = "WriteDigestSkip"
    /\ \E ok \in BOOLEAN :
         /\ writeResult("IMAGE_DIGEST", digest, ok)
         /\ Return(IF WriteErr(ok) = NoErr THEN NoErr
                   ELSE Wrap("failed to write IMAGE_DIGEST result", WriteErr(ok)))
    /\ UNCHANGED <<env, outside, locals, calls>>

\* ------------------------------------------------ prefetch.FetchDependencies
\* Faulty variant: a failure of setupAuthentication is returned.
FetchPreErr_AuthFatal(mkdirOk, authOk, cfgOk, cfg) ==
    IF ~mkdirOk THEN Wrap("failed to create output directory", ToolErr("mkdir"))
    ELSE IF ~authOk THEN Wrap("failed to setup authentication", ToolErr("copy"))
    ELSE IF cfg.Cachi2ConfigFileContent # "" /\ ~cfgOk
    THEN Wrap("failed to write config file", ToolErr("write"))
    ELSE NoErr

\* The error FetchDependencies returns before it runs cachi2: the output
\* directory cannot be created, or the config file cannot be written.  A
\* failure of setupAuthentication is only logged.
FetchPreErr(mkdirOk, authOk, cfgOk, cfg) ==
    IF ~mkdirOk THEN Wrap("failed to create output directory", ToolErr("mkdir"))
    ELSE IF cfg.Cachi2ConfigFileContent # "" /\ ~cfgOk
    THEN Wrap("failed to write config file", ToolErr("write"))
    ELSE NoErr

\* "if err := step; err != nil { return fmt.Errorf(msg, err) }"
StepErr(ok, msg, op) == IF ok THEN NoErr ELSE Wrap(msg, ToolErr(op))

FetchDependencies ==
    /\ mode = "build" /\ pc = "Prefetch"
    /\ \E mkdirOk \in BOOLEAN, authOk \in BOOLEAN, cfgOk \in BOOLEAN, runOk \in BOOLEAN :
         LET pre == FetchPreErr(mkdirOk, authOk, cfgOk, config)
             e == StepErr(runOk, "cachi2 fetch-deps failed", "cachi2 fetch-deps")
         IN IF config.PrefetchInput = ""
            THEN Goto("Build") /\ UNCHANGED <<calls, authSetup>>
            ELSE /\ authSetup' = IF ~mkdirOk THEN authSetup
                                 ELSE IF authOk THEN "ok" ELSE "failed"
                 /\ IF pre # NoErr
                    THEN Return(Wrap("dependency prefetch failed", pre)) /\ UNCHANGED calls
                    ELSE /\ Run("cachi2 fetch-deps", S(config.PrefetchInput), runOk)
                         /\ IF e # NoErr
                            THEN Return(Wrap("dependency prefetch failed", e))
                            ELSE Goto("GenerateEnv")
    /\ UNCHANGED <<env, cancelAt, argv, prevArgv, parsed, files, locals>>

generateEnvironmentFile ==
    /\ mode = "build" /\ pc = "GenerateEnv"
    /\ \E runOk \in BOOLEAN :
         LET e == StepErr(runOk, "failed to generate environment file", "cachi2 generate-env")
         IN /\ Run("cachi2 generate-env", Empty, runOk)
            /\ IF e # NoErr
               THEN Return(Wrap("dependency prefetch failed", e))
               ELSE Goto("InjectFiles")
    /\ UNCHANGED <<env, outside, files, locals>>

injectFiles ==
    /\ mode = "build" /\ pc = "InjectFiles"
    /\ \E runOk \in BOOLEAN :
         LET e == StepErr(runOk, "failed to inject files", "cachi2 inject-files")
         IN /\ Run("cachi2 inject-files", Empty, runOk)
            /\ IF e # NoErr
               THEN Return(Wrap("dependency prefetch failed", e))
               ELSE Goto("Build")
    /\ UNCHANGED <<env, outside, files, locals>>

\* ------------------------------------------------------- image.BuildAndPush
\* Faulty variant: the build's exit status is ignored.
BuildErr_Ignored(runOk) == NoErr

\* The error BuildAndPush returns after the unshare-wrapped build.
BuildErr(runOk) == StepErr(runOk, "buildah build failed", "unshare buildah build")

\* Faulty variant: the push's exit status is ignored.
PushErr_Ignored(runOk) == NoErr

\* The error BuildAndPush returns after 'buildah push'.
PushErr(runOk) == StepErr(runOk, "buildah push failed", "buildah push")

\* Faulty variant: the commit id of the configuration is labelled.
buildContainerImage_ConfiguredCommit(cfg, commitSHA) ==
    [ImageURL |-> cfg.ImageURL, Dockerfile |-> S("./Dockerfile"),
     Context |-> S("/workspace/source"), Hermetic |-> FALSE,
     PrefetchInput |-> IF cfg.PrefetchInput = "" THEN Empty ELSE S(cfg.PrefetchInput),
     PrefetchPath |-> S("/workspace/cachi2"), ImageExpiresAfter |-> Empty,
     CommitSHA |-> cfg.CommitSHA,
     BuildArgs |-> <<>>, BuildArgsFile |-> Empty, TLSVerify |-> TRUE]

\* buildContainerImage: the image.BuildConfig handed to BuildAndPush, with
\* the commit of the clone.  The fields the run does not vary hold the
\* defaults of LoadConfigFromEnv.
buildContainerImage(cfg, commitSHA) ==
    [ImageURL |-> cfg.ImageURL, Dockerfile |-> S("./Dockerfile"),
     Context |-> S("/workspace/source"), Hermetic |-> FALSE,
     PrefetchInput |-> IF cfg.PrefetchInput = "" THEN Empty ELSE S(cfg.PrefetchInput),
     PrefetchPath |-> S("/workspace/cachi2"), ImageExpiresAfter |-> Empty,
     CommitSHA |-> commitSHA,
     BuildArgs |-> <<>>, BuildArgsFile |-> Empty, TLSVerify |-> TRUE]

\* BuildAndPush lines 41-48: the build vector, wrapped for rootless
\* execution, is run.
BuildAndPush_build ==
    /\ mode = "build" /\ pc = "Build"
    /\ \E runOk \in BOOLEAN, now \in Times :
         LET buildConfig == buildContainerImage(config, gitResult.CommitSHA)
             buildArgs == BuildahBuildCommand(buildConfig, now)
         IN /\ prevArgv' = buildArgs
            /\ argv' = UnshareCommand(buildArgs, buildConfig.Context)
            /\ Run("unshare buildah build", config.ImageURL, runOk)
            /\ IF BuildErr(runOk) # NoErr
               THEN Return(Wrap("container build failed", BuildErr(runOk)))
               ELSE Goto("Push")
    /\ UNCHANGED <<env, cancelAt, parsed, authSetup, files, locals>>

BuildAndPush_push ==
    /\ mode = "build" /\ pc = "Push"
    /\ \E runOk \in BOOLEAN :
         /\ Run("buildah push", config.ImageURL, runOk)
         /\ IF PushErr(runOk) # NoErr
            THEN Return(Wrap("container build failed", PushErr(runOk)))
            ELSE Goto("Inspect")
    /\ UNCHANGED <<env, outside, files, locals>>

BuildAndPush_digest ==
    /\ mode = "build" /\ pc = "Inspect"
    /\ \E runOk \in BOOLEAN, out \in InspectOutputs :
         /\ RunWithOutput("skopeo inspect", config.ImageURL, runOk, out)
         /\ digest' = DigestOrEmpty(getImageDigest(runOk, out))
    /\ Goto("WriteDigestBuilt")
    /\ UNCHANGED <<env, outside, files, shouldBuild, gitResult, resultURL, addIdx>>

\* Execute line 106: writeResult("IMAGE_DIGEST", buildResult.ImageDigest)
WriteDigestBuilt ==
    /\ mode = "build" /\ pc = "WriteDigestBuilt"
    /\ \E ok \in BOOLEAN :
         /\ writeResult("IMAGE_DIGEST", digest, ok)
         /\ Return(IF WriteErr(ok) = NoErr THEN NoErr
                   ELSE Wrap("failed to write IMAGE_DIGEST result", WriteErr(ok)))
    /\ UNCHANGED <<env, outside, locals, calls>>

BuildNext ==
    \/ initializeAndCheckBuild
    \/ WriteBuild
    \/ cloneRepository
    \/ WriteCommit
    \/ WriteUrl
    \/ WriteImageURL
    \/ getExistingImageDigest
    \/ WriteDigestSkip
    \/ FetchDependencies
    \/ generateEnvironmentFile
    \/ injectFiles
    \/ BuildAndPush_build
    \/ BuildAndPush_push
    \/ BuildAndPush_digest
    \/ WriteDigestBuilt

\* ========================================================== build-image-index
\* Faulty variant: the string is never split.
Split_Whole(s, sep) == <<s>>

\* strings.Split(s, sep) for a one-token separator.
RECURSIVE Split(_, _)
Split(s, sep) ==
    IF \A i \in 1..Len(s) : s[i] # sep THEN <<s>>
    ELSE LET k == CHOOSE i \in 1..Len(s) : s[i] = sep /\ \A j \in 1..(i - 1) : s[j] # sep
         IN <<SubSeq(s, 1, k - 1)>> \o Split(SubSeq(s, k + 1, Len(s)), sep)

IsSpace(tok) == tok \in {" ", "\n", "\t"}

\* strings.TrimSpace
RECURSIVE TrimSpace(_)
TrimSpace(s) ==
    IF s = <<>> THEN s
    ELSE IF IsSpace(s[1]) THEN TrimSpace(Tail(s))
    ELSE IF IsSpace(s[Len(s)]) THEN TrimSpace(SubSeq(s, 1, Len(s) - 1))
    ELSE s

\* ------------------------------------------------- Builder.shouldBuildIndex
shouldBuildIndex(cfg) ==
    IF cfg.AlwaysBuildIndex THEN TRUE ELSE Len(cfg.Images) > 1

\* Faulty variant: the flag alone selects the assembly, whatever the number
\* of images.
IndexBranch_FlagAssembles(cfg) ==
    IF shouldBuildIndex(cfg) THEN "index"
    ELSE IF Len(cfg.Images) = 1 THEN "single"
    ELSE "none"

\* The branch Execute takes (lines 41, 50, 69).
IndexBranch(cfg) ==
    IF shouldBuildIndex(cfg) /\ Len(cfg.Images) > 1 THEN "index"
    ELSE IF Len(cfg.Images) = 1 THEN "single"
    ELSE "none"

\* ------------------------------------------ imageindex Builder.getImageDigest
\* Faulty variant: the exit status of the inspect is ignored.
Index_getImageDigest_IgnoresExit(runOk, out) ==
    [digest |-> TrimSpace(out), err |-> NoErr]

Index_getImageDigest(runOk, out) ==
    IF ~runOk
    THEN [digest |-> Empty, err |-> Wrap("failed to inspect image", ToolErr("skopeo inspect"))]
    ELSE [digest |-> TrimSpace(out), err |-> NoErr]

\* buildImageIndex line 115
manifestName(cfg) == cfg.ImageURL \o <<"-index">>

\* --------------------------------------------- imageindex Builder.Execute
Index_Execute ==
    /\ mode = "index" /\ pc = "Start"
    /\ LET br == IndexBranch(config)
           imageRef == config.Images[1]
           parts == Split(imageRef, "@")
       IN CASE br = "index" ->
                 /\ Goto("ManifestCreate")
                 /\ UNCHANGED <<resultURL, digest>>
            [] br = "single" /\ Len(parts) = 2 ->
                 /\ resultURL' = parts[1]
                 /\ digest' = parts[2]
                 /\ Goto("Expiration")
            [] br = "single" /\ Len(parts) # 2 ->
                 /\ resultURL' = imageRef
                 /\ UNCHANGED digest
                 /\ Goto("SingleInspect")
            [] OTHER ->
                 /\ Return(<<"no images provided for index creation">>)
                 /\ UNCHANGED <<resultURL, digest>>
    /\ UNCHANGED <<env, outside, files, calls, shouldBuild, gitResult, addIdx>>

Index_SingleInspect ==
    /\ mode = "index" /\ pc = "SingleInspect"
    /\ \E runOk \in BOOLEAN, out \in FormatOutputs :
         /\ RunWithOutput("skopeo inspect", config.Images[1], runOk, [text |-> out])
         /\ digest' = DigestOrEmpty(Index_getImageDigest(runOk, out))
    /\ Goto("Expiration")
    /\ UNCHANGED <<env, outside, files, shouldBuild, gitResult, resultURL, addIdx>>

\* ------------------------------------------------ Builder.buildImageIndex
buildImageIndex_create ==
    /\ mode = "index" /\ pc = "ManifestCreate"
    /\ \E runOk \in BOOLEAN :
         LET e == StepErr(runOk, "failed to create manifest", "buildah manifest create")
         IN /\ Run("buildah manifest create", manifestName(config), runOk)
            /\ IF e # NoErr
               THEN Return(Wrap("failed to build image index", e)) /\ UNCHANGED addIdx
               ELSE Goto("ManifestAdd") /\ addIdx' = 1
    /\ UNCHANGED <<env, outside, files, shouldBuild, gitResult, digest, resultURL>>

\* Faulty variant: the error of an add does not say which image it was.
AddErr_Anonymous(imageRef, ok) ==
    StepErr(ok, "failed to add image to manifest", "buildah manifest add")

\* fmt.Errorf("failed to add image %s to manifest: %w", imageRef, err)
AddErr(imageRef, ok) ==
    StepErr(ok, "failed to add image " \o Str(imageRef) \o " to manifest",
            "buildah manifest add")

\* One iteration of "for _, imageRef := range b.config.Images".
buildImageIndex_add ==
    /\ mode = "index" /\ pc = "ManifestAdd"
    /\ addIdx <= Len(config.Images)
    /\ \E runOk \in BOOLEAN :
         LET e == AddErr(config.Images[addIdx], runOk)
         IN /\ Run("buildah manifest add", config.Images[addIdx], runOk)
            /\ IF e # NoErr
               THEN Return(Wrap("failed to build image index", e)) /\ UNCHANGED addIdx
               ELSE /\ addIdx' = addIdx + 1
                    /\ Goto(IF addIdx = Len(config.Images) THEN "ManifestPush"
                            ELSE "ManifestAdd")
    /\ UNCHANGED <<env, outside, files, shouldBuild, gitResult, digest, resultURL>>

buildImageIndex_push ==
    /\ mode = "index" /\ pc = "ManifestPush"
    /\ \E runOk \in BOOLEAN :
         LET e == StepErr(runOk, "failed to push manifest", "buildah manifest push")
         IN /\ Run("buildah manifest push", manifestName(config), runOk)
            /\ IF e # NoErr
               THEN Return(Wrap("failed to build image index", e))
               ELSE Goto("ManifestInspect")
    /\ UNCHANGED <<env, outside, files, locals>>

buildImageIndex_digest ==
    /\ mode = "index" /\ pc = "ManifestInspect"
    /\ \E runOk \in BOOLEAN, out \in FormatOutputs :
         /\ RunWithOutput("skopeo inspect", config.ImageURL, runOk, [text |-> out])
         /\ digest' = DigestOrEmpty(Index_getImageDigest(runOk, out))
    /\ Goto("ManifestRm")
    /\ UNCHANGED <<env, outside, files, shouldBuild, gitResult, resultURL, addIdx>>

\* Faulty variant: a failed cleanup fails the operation.
RmErr_Fatal(ok) == StepErr(ok, "failed to remove manifest", "buildah manifest rm")

\* "_ = rmCmd.Run()": the error of the cleanup is ignored.
RmErr(ok) == NoErr

\* The cleanup, then the result is handed back to Execute (lines 48-49).
buildImageIndex_rm ==
    /\ mode = "index" /\ pc = "ManifestRm"
    /\ \E runOk \in BOOLEAN :
         /\ Run("buildah manifest rm", manifestName(config), runOk)
         /\ IF RmErr(runOk) # NoErr
            THEN /\ Return(Wrap("failed to build image index", RmErr(runOk)))
                 /\ UNCHANGED resultURL
            ELSE /\ resultURL' = config.ImageURL
                 /\ Goto("Expiration")
    /\ UNCHANGED <<env, outside, files, shouldBuild, gitResult, digest, addIdx>>

\* Faulty variant: the copy that carries the label is run.
addExpirationLabel_Copies(cfg, imageURL) ==
    IF Index_parseDuration(cfg.ImageExpiresAfter) = NoDuration THEN <<>>
    ELSE <<Call("skopeo copy", imageURL, TRUE, NoOutput)>>

\* The commands addExpirationLabel runs: none for a zero duration; otherwise
\* the label and the 'skopeo copy' vector are built and the label is logged,
\* and no command is started.
addExpirationLabel_Commands(cfg, imageURL) ==
    IF Index_parseDuration(cfg.ImageExpiresAfter) = NoDuration THEN <<>>
    ELSE <<>>

\* Execute lines 73-78: addExpirationLabel for a non-empty ImageExpiresAfter;
\* it returns nil, and an error would only be logged.
addExpirationLabel ==
    /\ mode = "index" /\ pc = "Expiration"
    /\ calls' = IF config.ImageExpiresAfter # Empty
                THEN calls \o addExpirationLabel_Commands(config, resultURL)
                ELSE calls
    /\ Goto("WriteIndexURL")
    /\ UNCHANGED <<env, outside, files, locals>>

Index_WriteImageURL ==
    /\ mode = "index" /\ pc = "WriteIndexURL"
    /\ \E ok \in BOOLEAN :
         /\ writeResult("IMAGE_URL", resultURL, ok)
         /\ IF WriteErr(ok) = NoErr THEN Goto("WriteIndexDigest")
            ELSE Return(Wrap("failed to write IMAGE_URL result", WriteErr(ok)))
    /\ UNCHANGED <<env, outside, locals, calls>>

Index_WriteImageDigest ==
    /\ mode = "index" /\ pc = "WriteIndexDigest"
    /\ \E ok \in BOOLEAN :
         /\ writeResult("IMAGE_DIGEST", digest, ok)
         /\ Return(IF WriteErr(ok) = NoErr THEN NoErr
                   ELSE Wrap("failed to write IMAGE_DIGEST result", WriteErr(ok)))
    /\ UNCHANGED <<env, outside, locals, calls>>

IndexNext ==
    \/ Index_Execute
    \/ Index_SingleInspect
    \/ buildImageIndex_create
    \/ buildImageIndex_add
    \/ buildImageIndex_push
    \/ buildImageIndex_digest
    \/ buildImageIndex_rm
    \/ addExpirationLabel
    \/ Index_WriteImageURL
    \/ Index_WriteImageDigest

\* ================================================================== git.Clone
\* Revision strings and commit ids are sequences of characters, so that
\* len(revision) and plumbing.NewHash can be computed.
Rep(c, n) == [i \in 1..n |-> c]

HashLen == 40
MinIdLen == 7

\* The commits of the repository, an id no commit has, and the zero hash.
Full1 == Rep("a", HashLen)
Full2 == Rep("b", HashLen)
Missing == Rep("c", HashLen)
ZeroHash == Rep("0", HashLen)

\* Reference names, and an abbreviated commit id.
Main == <<"m", "a", "i", "n">>
Master == <<"m", "a", "s", "t", "e", "r">>
Release == <<"r", "e", "l", "e", "a", "s", "e">>
TagRC == <<"v", "1", ".", "0", ".", "0", "-", "r", "c">>
Abbrev == Rep("a", MinIdLen)
LongName == Rep("x", HashLen + 1)

Revisions == {Empty, Main, Release, TagRC, Abbrev, Full1, Missing, LongName}

\* CloneConfig.Refspec names no reference, or the branch 'release'.
RefspecRelease == <<"refs/heads/">> \o Release
Refspecs == {Empty, RefspecRelease}

CloneConfigs ==
    [URL : GitURLs, Revision : Revisions, Refspec : Refspecs, Submodules : BOOLEAN]

\* A repository: its default branch, its other branches, its tags, and the
\* commit the HEAD of the clone points to (none before the clone).
NoCommit == Empty
NoRepo == [defaultBranch |-> Empty, branches |-> {}, tags |-> {}, HEAD |-> NoCommit]
Repos ==
    [defaultBranch : {Main, Master}, branches : {{}, {Release}, {LongName}},
     tags : SUBSET {TagRC, Release}, HEAD : {NoCommit}]

Objects == {Full1, Full2}
BranchesOf(r) == {r.defaultBranch} \cup r.branches
\* The commit a branch or a tag points to.
TipOf(r, name) == IF name = r.defaultBranch THEN Full1 ELSE Full2

HexChars == {"0", "1", "2", "3", "4", "5", "6", "7", "8", "9",
             "a", "b", "c", "d", "e", "f"}

\* hex.DecodeString: the bytes decoded before the first error, two
\* characters a byte.
RECURSIVE hexDecode(_)
hexDecode(s) ==
    IF Len(s) >= 2 /\ s[1] \in HexChars /\ s[2] \in HexChars
    THEN <<s[1], s[2]>> \o hexDecode(SubSeq(s, 3, Len(s)))
    ELSE <<>>

\* plumbing.NewHash(s).String(): the decoded bytes copied into a zeroed
\* 20-byte hash.
NewHash(s) ==
    LET b == hexDecode(s)
        n == IF Len(b) > HashLen THEN HashLen ELSE Len(b)
    IN SubSeq(b, 1, n) \o Rep("0", HashLen - n)

\* Faulty variant: the id attempt is made whatever the length.
InIdRange_Always(revision) == TRUE

\* len(revision) >= 7 && len(revision) <= 40
InIdRange(revision) == Len(revision) >= MinIdLen /\ Len(revision) <= HashLen

\* w.Checkout(&git.CheckoutOptions{Hash: hash}): the commit checked out, or
\* NoCommit if there is none to check out.  CheckoutOptions.Validate puts
\* refs/heads/master in an empty Branch, which is what a zero Hash leaves
\* to be checked out.
HashTarget(r, hash) ==
    IF hash = ZeroHash
    THEN IF Master \in BranchesOf(r) THEN TipOf(r, Master) ELSE NoCommit
    ELSE IF hash \in Objects THEN hash ELSE NoCommit

\* Faulty variant: the error of the last checkout is wrapped.
ResolutionError_WrapsCheckout(revision) ==
    Wrap("failed to checkout revision: " \o Str(revision), ToolErr("checkout tag"))

\* fmt.Errorf("failed to checkout revision: %s", revision)
ResolutionError(revision) == <<"failed to checkout revision: " \o Str(revision)>>

\* fmt.Errorf("failed to checkout revision %s: %w", config.Revision, err)
CheckoutFailed(e) == Wrap("failed to checkout revision " \o Str(config.Revision), e)

\* Faulty variant: the head of the default branch is reported, whatever the
\* clone checked out.
HeadHash_DefaultBranch(r) == TipOf(r, r.defaultBranch)

\* repo.Head() followed by head.Hash().String()
HeadHash(r) == r.HEAD

\* os.MkdirAll(config.Destination, 0755)
Clone_MkdirAll ==
    /\ mode = "git" /\ pc = "Start"
    /\ \E ok \in BOOLEAN :
         /\ Run("os.MkdirAll", Empty, ok)
         /\ IF ok THEN Goto("PlainClone")
            ELSE Return(Wrap("failed to create destination directory", ToolErr("mkdir")))
    /\ UNCHANGED <<env, outside, files, locals>>

\* The branch cloneOptions.ReferenceName selects: that of the refspec, or
\* the default branch of the remote.
ClonedBranch(r) ==
    IF config.Refspec = Empty THEN r.defaultBranch
    ELSE SubSeq(config.Refspec, 2, Len(config.Refspec))

\* git.PlainCloneContext: the clone fails, or HEAD points to the head of
\* the cloned branch.  A failure to load the credentials of AuthPath is
\* logged only, and the depth only bounds the history fetched.
Clone_PlainClone ==
    /\ mode = "git" /\ pc = "PlainClone"
    /\ \E fault \in BOOLEAN :
         LET ok == ~fault /\ ClonedBranch(repo) \in BranchesOf(repo)
         IN /\ Run("git.PlainClone", config.URL, ok)
            /\ IF ok
               THEN /\ repo' = [repo EXCEPT !.HEAD = TipOf(repo, ClonedBranch(repo))]
                    /\ Goto(IF config.Revision # Empty THEN "checkoutRevision" ELSE "Head")
               ELSE /\ Return(Wrap("git clone failed", ToolErr("git clone")))
                    /\ UNCHANGED repo
    /\ UNCHANGED <<mode, config, imageExists, outside, files, locals>>

\* Clone, revision empty: repo.Head()
Clone_Head ==
    /\ mode = "git" /\ pc = "Head"
    /\ \E ok \in BOOLEAN :
         /\ Run("repo.Head", Empty, ok)
         /\ IF ok
            THEN /\ gitResult' = [gitResult EXCEPT !.CommitSHA = HeadHash(repo)]
                 /\ Goto("Submodules")
            ELSE /\ Return(Wrap("failed to get HEAD", ToolErr("repo.Head")))
                 /\ UNCHANGED gitResult
    /\ UNCHANGED <<env, outside, files, shouldBuild, digest, resultURL, addIdx>>

\* checkoutRevision, first attempt: the revision as a commit hash.
\* repo.Worktree() cannot fail on a clone that is not bare.
checkoutRevision_Hash ==
    /\ mode = "git" /\ pc = "checkoutRevision"
    /\ InIdRange(config.Revision)
    /\ \E fault \in BOOLEAN :
         LET hash == NewHash(config.Revision)
             target == HashTarget(repo, hash)
             ok == ~fault /\ target # NoCommit
         IN /\ Run("checkout hash", hash, ok)
            /\ IF ok
               THEN /\ repo' = [repo EXCEPT !.HEAD = target]
                    /\ gitResult' = [gitResult EXCEPT !.CommitSHA = hash]
                    /\ Goto("Submodules")
               ELSE /\ Goto("checkoutBranch")
                    /\ UNCHANGED <<repo, gitResult>>
    /\ UNCHANGED <<mode, config, imageExists, outside, files, shouldBuild, digest,
                   resultURL, addIdx>>

\* w.Checkout(&git.CheckoutOptions{Branch: ref}) and, once it succeeded,
\* repo.Head(): the next position, the error and the commit reported.
CheckoutRef(op, exists, tip, fault, headOk, onFailure) ==
    LET ok == ~fault /\ exists
    IN /\ Run(op, config.Revision, ok)
       /\ IF ok
          THEN /\ repo' = [repo EXCEPT !.HEAD = tip]
               /\ IF headOk
                  THEN /\ gitResult' = [gitResult EXCEPT !.CommitSHA = HeadHash(repo')]
                       /\ Goto("Submodules")
                  ELSE /\ Return(CheckoutFailed(ToolErr("repo.Head")))
                       /\ UNCHANGED gitResult
          ELSE /\ onFailure
               /\ UNCHANGED <<repo, gitResult>>

\* checkoutRevision, second attempt: the revision as a branch name.
checkoutRevision_Branch ==
    /\ mode = "git"
    /\ \/ pc = "checkoutBranch"
       \/ pc = "checkoutRevision" /\ ~InIdRange(config.Revision)
    /\ \E fault, headOk \in BOOLEAN :
         CheckoutRef("checkout branch", config.Revision \in BranchesOf(repo),
                     TipOf(repo, config.Revision), fault, headOk, Goto("checkoutTag"))
    /\ UNCHANGED <<mode, config, imageExists, outside, files, shouldBuild, digest,
                   resultURL, addIdx>>

\* checkoutRevision, third attempt: the revision as a tag name; after it
\* nothing is left to try.
checkoutRevision_Tag ==
    /\ mode = "git" /\ pc = "checkoutTag"
    /\ \E fault, headOk \in BOOLEAN :
         CheckoutRef("checkout tag", config.Revision \in repo.tags,
                     TipOf(repo, config.Revision), fault, headOk,
                     Return(CheckoutFailed(ResolutionError(config.Revision))))
    /\ UNCHANGED <<mode, config, imageExists, outside, files, shouldBuild, digest,
                   resultURL, addIdx>>

\* Clone, the end: updateSubmodules if requested, whose failure is logged
\* only, and the CloneResult.
Clone_Return ==
    /\ mode = "git" /\ pc = "Submodules"
    /\ IF config.Submodules
       THEN \E ok \in BOOLEAN : Run("updateSubmodules", Empty, ok)
       ELSE UNCHANGED calls
    /\ gitResult' = [gitResult EXCEPT !.URL = config.URL]
    /\ Return(NoErr)
    /\ UNCHANGED <<env, outside, files, shouldBuild, digest, resultURL, addIdx>>

NextGit ==
    \/ Clone_MkdirAll
    \/ Clone_PlainClone
    \/ Clone_Head
    \/ checkoutRevision_Hash
    \/ checkoutRevision_Branch
    \/ checkoutRevision_Tag
    \/ Clone_Return

\* ============================================================ specification
\* main.go: one of the two sub-commands runs, with a configuration loaded
\* from the environment; the results directory is empty or holds the files
\* of an earlier run.
Init ==
    /\ mode \in {"build", "index"}
    /\ config \in (IF mode = "build" THEN BuildConfigs ELSE IndexConfigs)
    /\ imageExists \in BOOLEAN
    /\ pc = "Start"
    /\ shouldBuild = FALSE
    /\ gitResult = [CommitSHA |-> Empty, URL |-> Empty]
    /\ digest = Empty
    /\ resultURL = Empty
    /\ addIdx = 0
    /\ results \in {[n \in ResultNames |-> c] : c \in {NoFile, Leftover}}
    /\ writes = <<>>
    /\ calls = <<>>
    /\ err = NoErr
    /\ cancelAt = 0
    /\ argv = <<>>
    /\ prevArgv = <<>>
    /\ parsed = NoDuration
    /\ authSetup = "none"
    /\ repo = NoRepo

\* The positions of a run at which an external process is in flight.
InFlight ==
    IF mode = "build"
    THEN \/ pc = "Start" /\ ~AlwaysBuild(config)
         \/ pc \in {"Clone", "SkipDigest", "Prefetch", "GenerateEnv",
                     "InjectFiles", "Build", "Push", "Inspect"}
    ELSE pc \in {"SingleInspect", "ManifestCreate", "ManifestAdd",
                 "ManifestPush", "ManifestInspect", "ManifestRm"}

\* The caller cancels the ctx handed to Execute while the process of the
\* current step is in flight.
Cancel ==
    /\ cancelAt = 0
    /\ InFlight
    /\ cancelAt' = Len(calls) + 1
    /\ UNCHANGED <<env, argv, prevArgv, parsed, authSetup, pc, locals, files, calls, err>>

Next == BuildNext \/ IndexNext \/ Cancel

Spec == Init /\ [][Next]_vars

\* The command builders of pkg/image, called on every BuildConfig.
NoRun ==
    /\ imageExists = FALSE
    /\ shouldBuild = FALSE
    /\ gitResult = [CommitSHA |-> Empty, URL |-> Empty]
    /\ digest = Empty
    /\ resultURL = Empty
    /\ addIdx = 0
    /\ results = [n \in ResultNames |-> NoFile]
    /\ writes = <<>>
    /\ calls = <<>>
    /\ err = NoErr
    /\ cancelAt = 0

InitArgs ==
    /\ mode = "args"
    /\ config \in ArgConfigs
    /\ pc = "Start"
    /\ argv = <<>>
    /\ prevArgv = <<>>
    /\ parsed = NoDuration
    /\ authSetup = "none"
    /\ repo = NoRepo
    /\ NoRun

SpecArgs == InitArgs /\ [][NextArgs]_vars

\* The duration parser on its own: on every short string over DurationChars
\* and on some longer ones.
DurationChars == {"1", "2", "h", "d", "w", "m", "x"}
LongDurations ==
    {<<"2", "4", "h">>, <<"b", "o", "g", "u", "s">>, <<"1", "m", "2", "d">>,
     <<"2", "5", "6", "2", "0", "4", "7", "h">>, <<"2", "5", "6", "2", "0", "4", "8", "h">>,
     <<"1", "0", "6", "7", "5", "1", "d">>, <<"1", "0", "6", "7", "5", "2", "d">>,
     <<"1", "5", "2", "5", "0", "w">>, <<"1", "5", "2", "5", "1", "w">>}
DurationInputs == SeqsUpTo(DurationChars, MaxDurationLen) \cup LongDurations

InitDuration ==
    /\ mode = "duration"
    /\ config \in [ImageExpiresAfter : DurationInputs]
    /\ pc = "Start"
    /\ argv = <<>>
    /\ prevArgv = <<>>
    /\ parsed = NoDuration
    /\ authSetup = "none"
    /\ repo = NoRepo
    /\ NoRun

NextDuration == Call_parseDuration

SpecDuration == InitDuration /\ [][NextDuration]_vars

\* The rootless wrapper on its own, on every inner argument list.
InnerArgs ==
    {Empty, S("build"), <<"KEY=value", " ", "with", " ", "spaces">>,
     <<"A=", "$", "HOME">>, <<Backquote, "id", Backquote>>, <<"a", "\\", "b">>,
     <<"say", "\"", "hi", "\"">>, <<"cost", "$">>}

InitWrap ==
    /\ mode = "wrap"
    /\ config \in [Context : Contexts]
    /\ pc = "BuildahBuildCommand"
    /\ argv \in SeqsUpTo(InnerArgs, MaxInnerArgs)
    /\ prevArgv = <<>>
    /\ parsed = NoDuration
    /\ authSetup = "none"
    /\ repo = NoRepo
    /\ NoRun

NextWrap == Call_UnshareCommand

SpecWrap == InitWrap /\ [][NextWrap]_vars

\* git.Clone on its own, on every revision string and repository.
InitGit ==
    /\ mode = "git"
    /\ config \in CloneConfigs
    /\ repo \in Repos
    /\ pc = "Start"
    /\ argv = <<>>
    /\ prevArgv = <<>>
    /\ parsed = NoDuration
    /\ authSetup = "none"
    /\ imageExists = FALSE
    /\ shouldBuild = FALSE
    /\ gitResult = [CommitSHA |-> Empty, URL |-> Empty]
    /\ digest = Empty
    /\ resultURL = Empty
    /\ addIdx = 0
    /\ results = [n \in ResultNames |-> NoFile]
    /\ writes = <<>>
    /\ calls = <<>>
    /\ err = NoErr
    /\ cancelAt = 0

SpecGit == InitGit /\ [][NextGit]_vars

\* ==================================================================== claims
\* Vocabulary of the claims.
Probe == "skopeo inspect --raw"
Inspect == "skopeo inspect"
BuildOp == "unshare buildah build"
PushOp == "buildah push"
PrefetchOps == {"cachi2 fetch-deps", "cachi2 generate-env", "cachi2 inject-files"}
OnSkipPath == pc \in {"SkipDigest", "WriteDigestSkip"}
FlagSet == config.Rebuild \/ config.SkipChecks
LastCall == calls[Len(calls)]
\* The run took the skip branch of Execute at some point.
TookSkipPath ==
    /\ ~Invoked(BuildOp)
    /\ \/ OnSkipPath
       \/ /\ Invoked(Inspect)
          /\ pc \in {"Done", "Failed"}
\* The existence probe was run and exited zero / non-zero.
ProbeSucceeded == Len(calls) >= 1 /\ calls[1].op = Probe /\ calls[1].ok
ProbeFailed == Len(calls) >= 1 /\ calls[1].op = Probe /\ ~calls[1].ok

\* C1: with force-rebuild or skip-checks set, the build is required whatever
\* the registry holds (the 'build' result is "true", the skip branch is never
\* entered) and the existence probe is never invoked.
C1_FlagsForceBuild ==
    (mode = "build" /\ FlagSet) =>
        /\ ~Invoked(Probe)
        /\ pc # "Start" => shouldBuild
        /\ ~TookSkipPath
        /\ Written("build") => results["build"] = S("true")

\* C1 witness: a flagged run reaches the push although the image exists.
C1_Witness ==
    /\ mode = "build" /\ FlagSet /\ imageExists
    /\ pc = "Push"
    /\ results["build"] = S("true")

C3_ProbeFailureBuilds ==
    (mode = "build" /\ ~FlagSet /\ ProbeFailed) =>
        /\ shouldBuild
        /\ ~TookSkipPath
        /\ Written("build") => results["build"] = S("true")

\* C3 witness: the image exists, the probe still failed, and the build ran.
C3_Witness ==
    /\ mode = "build" /\ ~FlagSet /\ ProbeFailed /\ imageExists
    /\ Invoked(BuildOp)

\* C4: a failed push is the last external step of the run: no inspect
\* follows, BuildAndPush hands back no digest, Execute returns an error that
\* wraps the push error, and IMAGE_DIGEST is not written.
C4_PushFailureFatal ==
    (mode = "build") =>
        \A i \in 1..Len(calls) :
            (calls[i].op = PushOp /\ ~calls[i].ok) =>
                /\ i = Len(calls)
                /\ pc = "Failed"
                /\ err = <<"container build failed", "buildah push failed",
                           "exit: buildah push">>
                /\ digest = Empty
                /\ ~Written("IMAGE_DIGEST")

\* C4 witness: the push has failed after a successful build.
C4_Witness ==
    /\ mode = "build" /\ Len(calls) >= 2
    /\ LastCall.op = PushOp /\ ~LastCall.ok
    /\ calls[Len(calls) - 1].op = BuildOp /\ calls[Len(calls) - 1].ok
    /\ pc = "Failed"

DigestLookupFailed(c) ==
    \/ ~c.ok
    \/ ~c.out.isObject
    \/ c.out.digestKind # "string"

\* C6: in the build pipeline a failed digest lookup (on the skip path or
\* after a successful push) leaves the digest empty and the run alive: it
\* goes on to write IMAGE_DIGEST, it can only fail in that write, and when it
\* completes IMAGE_DIGEST holds the empty string.
C6_DigestFailureNotFatal ==
    (mode = "build") =>
        \A i \in 1..Len(calls) :
            (calls[i].op = Inspect /\ DigestLookupFailed(calls[i])) =>
                /\ digest = Empty
                /\ pc \in {"WriteDigestSkip", "WriteDigestBuilt", "Done", "Failed"}
                /\ pc = "Failed" =>
                      err = <<"failed to write IMAGE_DIGEST result", "exit: write">>
                /\ pc = "Done" => results["IMAGE_DIGEST"] = Empty

\* C6 witness: pushed, skopeo printed text that is not JSON although another
\* digest was on offer, and the run completed with an empty IMAGE_DIGEST.
C6_Witness ==
    /\ mode = "build" /\ pc = "Done" /\ Len(calls) >= 1
    /\ Invoked(PushOp)
    /\ LastCall.op = Inspect /\ LastCall.ok /\ ~LastCall.out.isObject
    /\ results["IMAGE_DIGEST"] = Empty

\* BuildAndPush has returned a result (not an error).
BuildAndPushReturned ==
    \/ pc = "WriteDigestBuilt"
    \/ pc \in {"Done", "Failed"} /\ Invoked(PushOp) /\ LastCall.op = Inspect

\* C7: when BuildAndPush returns a result it has run exactly three commands,
\* the unshare-wrapped build, the push and the inspect, in that order, the
\* first two successfully; a push is always directly preceded by a successful
\* build and the inspect of a built image by a successful push.
C7_BuildPushInspect ==
    (mode = "build") =>
        /\ BuildAndPushReturned =>
              /\ Len(calls) >= 3
              /\ calls[Len(calls) - 2].op = BuildOp /\ calls[Len(calls) - 2].ok
              /\ calls[Len(calls) - 1].op = PushOp /\ calls[Len(calls) - 1].ok
              /\ LastCall.op = Inspect
              /\ CountOp(BuildOp) = 1 /\ CountOp(PushOp) = 1 /\ CountOp(Inspect) = 1
        /\ \A i \in 1..Len(calls) :
              /\ calls[i].op = PushOp =>
                    i > 1 /\ calls[i - 1].op = BuildOp /\ calls[i - 1].ok
              /\ (calls[i].op = Inspect /\ Invoked(BuildOp)) =>
                    i > 1 /\ calls[i - 1].op = PushOp /\ calls[i - 1].ok

\* C7 witness: BuildAndPush returned although the inspect exited non-zero.
C7_Witness ==
    /\ mode = "build" /\ pc = "WriteDigestBuilt"
    /\ Len(calls) >= 3 /\ ~LastCall.ok

\* C8: a run of either pipeline that returns nil has written IMAGE_URL and
\* IMAGE_DIGEST (the digest possibly as the empty string).
C8_RequiredResultsWritten ==
    pc = "Done" => Written("IMAGE_URL") /\ Written("IMAGE_DIGEST")

\* C8 witness: an index run completed with an empty digest.
C8_Witness ==
    /\ mode = "index" /\ pc = "Done"
    /\ Written("IMAGE_URL")
    /\ results["IMAGE_DIGEST"] = Empty

\* A result was written only after the step that computes it succeeded.
WrittenOnlyWhenComputed ==
    /\ (Written("commit") \/ Written("url")) =>
          \E i \in 1..Len(calls) : calls[i].op = "git clone" /\ calls[i].ok
    /\ Written("build") => results["build"] = IF shouldBuild THEN S("true") ELSE S("false")
    /\ Written("commit") => results["commit"] = gitResult.CommitSHA
    /\ Written("url") => results["url"] = gitResult.URL
    /\ Written("IMAGE_URL") => results["IMAGE_URL"] = config.ImageURL
    /\ Written("IMAGE_DIGEST") => Invoked(Inspect)

IsPrefix(p, q) == Len(p) <= Len(q) /\ SubSeq(q, 1, Len(p)) = p

\* C10: the result files of a build run are written in the order build,
\* commit, url, IMAGE_URL, IMAGE_DIGEST, each at most once and none out of
\* order, and a run that completes, on the skip path or the build path, has
\* written all five.
C10_ResultOrder ==
    (mode = "build") =>
        /\ IsPrefix(writes, BuildResultNames)
        /\ pc = "Done" => writes = BuildResultNames

\* C10 witness: a completed skip run wrote all five results in order.
C10_Witness ==
    /\ mode = "build" /\ pc = "Done" /\ ~shouldBuild
    /\ writes = BuildResultNames

\* Position of each external step in the state order of a build run.
CloneOp == "git clone"
StepRank(op) ==
    CASE op = Probe -> 1
      [] op = CloneOp -> 2
      [] op = "cachi2 fetch-deps" -> 3
      [] op = "cachi2 generate-env" -> 4
      [] op = "cachi2 inject-files" -> 5
      [] op = BuildOp -> 6
      [] op = PushOp -> 7
      [] op = Inspect -> 8
      [] OTHER -> 0
CloneCompleted == \E i \in 1..Len(calls) : calls[i].op = CloneOp /\ calls[i].ok
\* The steps run in the state order, none twice.
StepsInOrder ==
    \A i, j \in 1..Len(calls) :
        i < j => 0 < StepRank(calls[i].op) /\ StepRank(calls[i].op) < StepRank(calls[j].op)
\* Every step but the tolerated probe succeeded before the next one started.
AbortAtFailure ==
    \A i \in 1..Len(calls) :
        (i < Len(calls) /\ calls[i].op # Probe) => calls[i].ok
\* The branch taken after the clone is the one the decision selected.
BranchFollowsDecision ==
    /\ (Invoked(BuildOp) \/ \E op \in PrefetchOps : Invoked(op)) => shouldBuild
    /\ (Invoked(Inspect) /\ ~Invoked(BuildOp)) => ~shouldBuild
    /\ Invoked(Inspect) => (Invoked(PushOp) <=> shouldBuild)

PrefetchCompleted ==
    \A op \in PrefetchOps : \E i \in 1..Len(calls) : calls[i].op = op /\ calls[i].ok
PastImageURL == "IMAGE_URL" \in {writes[i] : i \in 1..Len(writes)}

\* C12: the prefetch step is executed iff the build path is taken and a
\* prefetch input is configured, and when executed it has completed before
\* the build is invoked.
C12_PrefetchIffConfigured ==
    (mode = "build") =>
        /\ (\E op \in PrefetchOps : Invoked(op)) =>
               (shouldBuild /\ config.PrefetchInput # "")
        /\ (PastImageURL /\ shouldBuild /\ config.PrefetchInput # "" /\ pc # "Prefetch") =>
               (Invoked("cachi2 fetch-deps") \/ (pc = "Failed" /\ err[1] = "dependency prefetch failed"))
        /\ (Invoked(BuildOp) /\ config.PrefetchInput # "") =>
               /\ PrefetchCompleted
               /\ \A i, j \in 1..Len(calls) :
                      (calls[i].op \in PrefetchOps /\ calls[j].op = BuildOp) => i < j
        /\ (Invoked(BuildOp) /\ config.PrefetchInput = "") =>
               ~\E op \in PrefetchOps : Invoked(op)

\* C12 witness: the build was invoked after a completed prefetch.
C12_Witness ==
    /\ mode = "build" /\ config.PrefetchInput # "" /\ Len(calls) >= 1
    /\ LastCall.op = BuildOp /\ PrefetchCompleted

\* The ctx was cancelled while step number cancelAt was in flight, and that
\* step has returned.
CancelledInFlight == cancelAt # 0 /\ Len(calls) >= cancelAt

\* C13: once cancellation is signalled while an external process of a run is
\* in flight, the run invokes no further step and does not complete
\* successfully; in particular not when the process is the existence probe
\* or the digest lookup.
C13_CancelAborts ==
    CancelledInFlight =>
        /\ Len(calls) = cancelAt
        /\ pc # "Done"

\* After a cancellation during the existence probe the run goes on to the
\* clone step.
C13_ProbeCancelContinues ==
    /\ mode = "build" /\ cancelAt = 1 /\ Len(calls) = 2
    /\ calls[1].op = Probe /\ calls[2].op = CloneOp

\* After a cancellation during the digest lookup the run completes
\* successfully.
C13_DigestCancelCompletes ==
    /\ mode = "build" /\ CancelledInFlight /\ calls[cancelAt].op = Inspect
    /\ pc = "Done" /\ err = NoErr

\* The value a run hands to writeResult for each of its result names.
ValueWritten(name) ==
    IF mode = "build"
    THEN CASE name = "build" -> (IF shouldBuild THEN S("true") ELSE S("false"))
           [] name = "commit" -> gitResult.CommitSHA
           [] name = "url" -> gitResult.URL
           [] name = "IMAGE_URL" -> config.ImageURL
           [] name = "IMAGE_DIGEST" -> digest
    ELSE CASE name = "IMAGE_URL" -> resultURL
           [] name = "IMAGE_DIGEST" -> digest
NamesOf(m) == IF m = "build" THEN BuildResultNames ELSE IndexResultNames

\* C14: within one run no result name is written more than once, a run that
\* completes has written each result name of its pipeline exactly once, and
\* a written file holds exactly the value written, whatever it held before.
C14_WrittenOnce ==
    /\ \A i, j \in 1..Len(writes) : i # j => writes[i] # writes[j]
    /\ \A i \in 1..Len(writes) :
           \E k \in 1..Len(NamesOf(mode)) : NamesOf(mode)[k] = writes[i]
    /\ pc = "Done" => Len(writes) = Len(NamesOf(mode))
    /\ \A n \in ResultNames :
           IF Written(n) THEN results[n] = ValueWritten(n)
           ELSE results[n] \in {NoFile, Leftover}

\* C14 witness: an index run completed over the files of an earlier run,
\* replaced its two results and left the other files alone.
C14_Witness ==
    /\ mode = "index" /\ pc = "Done"
    /\ writes = IndexResultNames
    /\ results["build"] = Leftover
    /\ results["IMAGE_URL"] = resultURL /\ results["IMAGE_DIGEST"] = digest

\* -------------------------------------------------- argument vectors
\* The flags of the build vector that take the next element as their value.
ValueFlags ==
    {S("--file"), S("--tag"), S("--build-arg"), S("--build-arg-file"),
     S("--volume"), S("--label")}
TLSFlag == S("--tls-verify=false")
NetworkFlag == S("--network=none")
\* The positions of a vector from i on that are not the value of a flag.
RECURSIVE Heads(_, _)
Heads(v, i) ==
    IF i > Len(v) THEN {}
    ELSE IF v[i] \in ValueFlags THEN {i} \cup Heads(v, i + 2)
    ELSE {i} \cup Heads(v, i + 1)
\* The values of the flag f in a vector, in order.
RECURSIVE ValuesOf(_, _, _)
ValuesOf(v, f, i) ==
    IF i > Len(v) THEN <<>>
    ELSE IF v[i] = f THEN <<v[i + 1]>> \o ValuesOf(v, f, i + 2)
    ELSE IF v[i] \in ValueFlags THEN ValuesOf(v, f, i + 2)
    ELSE ValuesOf(v, f, i + 1)
HasFlag(v, f) == \E i \in Heads(v, 2) : v[i] = f
FlagCount(v, f) == Cardinality({i \in Heads(v, 2) : v[i] = f})
\* The group of the fixed order to which the element at head i belongs.
GroupOf(v, i) ==
    CASE v[i] = S("--file") -> 1
      [] v[i] = S("--tag") -> 2
      [] v[i] = TLSFlag -> 3
      [] v[i] = S("--build-arg") -> 4
      [] v[i] = S("--build-arg-file") -> 5
      [] v[i] \in {S("--volume"), NetworkFlag} -> 6
      [] v[i] = S("--label") -> (IF v[i + 1][1] = "io.konflux.commit=" THEN 7 ELSE 8)
      [] OTHER -> 9
BuiltBuild == mode = "args" /\ pc = "BuildahBuildCommand"
BuiltPush == mode = "args" /\ pc = "BuildahPushCommand"
BuiltInspect == mode = "args" /\ pc = "SkopeoInspectCommand"
BuiltExists == mode = "args" /\ pc = "SkopeoExistsCommand"
Last(v) == v[Len(v)]

\* C15: the build vector starts with 'build', '--file' dockerfile, '--tag'
\* image and then holds, in this order, the TLS flag, the build-arg pairs,
\* the build-arg-file flag, the hermetic flags, the commit label, the
\* expiration label and the context; no group comes before an earlier one.
C15_FixedOrder ==
    BuiltBuild =>
        /\ SubSeq(argv, 1, 5) =
               <<S("build"), S("--file"), config.Dockerfile, S("--tag"), config.ImageURL>>
        /\ \A i, j \in Heads(argv, 2) : i < j => GroupOf(argv, i) <= GroupOf(argv, j)
        /\ \A i, j \in Heads(argv, 2) :
               (i # j /\ GroupOf(argv, i) = GroupOf(argv, j)) => GroupOf(argv, i) \in {4, 6}
        /\ GroupOf(argv, Len(argv)) = 9 /\ Len(argv) \in Heads(argv, 2)

\* C15 witness: a vector holding every group.
C15_Witness ==
    /\ BuiltBuild
    /\ {GroupOf(argv, i) : i \in Heads(argv, 2)} = 1..9

\* C16: the build vector holds one '--build-arg' pair per non-empty entry of
\* the build arguments, in input order, and nothing for an empty entry.
C16_BuildArgPairs ==
    BuiltBuild =>
        /\ ValuesOf(argv, S("--build-arg"), 2) =
               SelectSeq(config.BuildArgs, LAMBDA a : a # Empty)
        /\ FlagCount(argv, S("--build-arg")) =
               Cardinality({k \in 1..Len(config.BuildArgs) : config.BuildArgs[k] # Empty})

\* C16 witness: an empty entry was dropped and a non-empty one kept.
C16_Witness ==
    /\ BuiltBuild
    /\ config.BuildArgs = <<Empty, S("A=1")>>
    /\ FlagCount(argv, S("--build-arg")) = 1

\* C17: each of the four vectors holds the flag '--tls-verify=false' exactly
\* once when TLS verification is disabled and not at all when it is enabled.
C17_TLSFlag ==
    (BuiltBuild \/ BuiltPush \/ BuiltInspect \/ BuiltExists) =>
        FlagCount(argv, TLSFlag) = IF config.TLSVerify THEN 0 ELSE 1

\* C17 witness: a push vector with verification disabled.
C17_Witness ==
    /\ BuiltPush /\ ~config.TLSVerify
    /\ FlagCount(argv, TLSFlag) = 1

\* C18 (as stated): probe, inspect and push name the reference as
\* 'docker://' followed by the image reference, as their last element.
C18_SchemePrefix ==
    (BuiltPush \/ BuiltInspect \/ BuiltExists) =>
        Last(argv) = <<"docker://">> \o config.ImageURL

\* C18 (amended): the existence probe and the digest inspect name the
\* reference as 'docker://' followed by the image reference; the push names
\* the bare image reference; in all three it is the last element.
C18_ReferenceLast ==
    /\ (BuiltInspect \/ BuiltExists) => Last(argv) = <<"docker://">> \o config.ImageURL
    /\ BuiltPush =>
           /\ Last(argv) = config.ImageURL
           /\ \A i \in 1..Len(argv) : argv[i][1] # "docker://"

\* An inspect vector and its scheme-prefixed last element.
C18_InspectWitness ==
    /\ BuiltInspect /\ ~config.TLSVerify
    /\ Len(argv) = 3 /\ argv[3] = <<"docker://">> \o config.ImageURL

\* C18 witness: a push vector, the bare reference last.
C18_Witness ==
    /\ BuiltPush /\ Last(argv) = config.ImageURL

\* C19: the hermetic flags are in the build vector iff hermetic mode is
\* enabled and a prefetch input is supplied.
C19_HermeticIff ==
    BuiltBuild =>
        /\ HasFlag(argv, NetworkFlag) <=> (config.Hermetic /\ config.PrefetchInput # Empty)
        /\ HasFlag(argv, S("--volume")) =>
               (config.Hermetic /\ config.PrefetchInput # Empty)

\* C19 witness: hermetic mode without a prefetch input adds nothing.
C19_Witness ==
    /\ BuiltBuild /\ config.Hermetic /\ config.PrefetchInput = Empty
    /\ config.PrefetchPath # Empty
    /\ ~HasFlag(argv, NetworkFlag) /\ ~HasFlag(argv, S("--volume"))

\* C19 witness: hermetic mode with a prefetch input isolates the network.
C19_WitnessOn ==
    /\ BuiltBuild /\ config.Hermetic /\ config.PrefetchInput # Empty
    /\ HasFlag(argv, NetworkFlag)

\* C20: when the hermetic flags are emitted, with a prefetch path supplied,
\* the build vector holds the network-isolation flag, a mount of the
\* prefetched output and a reference to the prefetch environment file.
C20_HermeticComplete ==
    (BuiltBuild /\ config.Hermetic /\ config.PrefetchInput # Empty
                /\ config.PrefetchPath # Empty) =>
        /\ HasFlag(argv, NetworkFlag)
        /\ \E i \in Heads(argv, 2) :
               /\ argv[i] = S("--volume")
               /\ SubSeq(argv[i + 1], 1, Len(config.PrefetchPath)) = config.PrefetchPath
        /\ \E i \in 1..Len(argv) :
               \/ argv[i] = S("--env-file")
               \/ \E k \in 1..Len(argv[i]) : argv[i][k] = "cachi2.env"

\* The hermetic vector isolates the network and mounts the prefetch path,
\* and names no environment file.
C20_NoEnvFile ==
    /\ BuiltBuild /\ config.Hermetic /\ config.PrefetchInput # Empty
    /\ config.PrefetchPath # Empty
    /\ HasFlag(argv, NetworkFlag) /\ HasFlag(argv, S("--volume"))
    /\ ~HasFlag(argv, S("--env-file"))

BuiltUnshare == pc = "UnshareCommand"
BuiltAgain == mode = "args" /\ pc = "BuildahBuildCommand again"

\* C21 (as stated): the last element of the build vector is the build
\* context path of the configuration, and nothing follows it.
C21_ContextLast ==
    BuiltBuild => (Last(argv) = config.Context /\ Len(argv) \in Heads(argv, 2))

\* C21 (amended): the last element of the build vector is the literal '.',
\* no flag or value follows it, and it names the build context of the
\* configuration because the rootless wrapper runs the build with '-w' set
\* to that path.
C21_DotLast ==
    /\ BuiltBuild => (Last(argv) = S(".") /\ Len(argv) \in Heads(argv, 2))
    /\ (mode = "args" /\ BuiltUnshare) =>
           /\ Last(prevArgv) = S(".")
           /\ argv[9] = S("-w") /\ argv[10] = config.Context

\* C21 witness: a build vector ending in '.', wrapped to run in a context
\* path other than '.'.
C21_Witness ==
    /\ mode = "args" /\ BuiltUnshare
    /\ config.Context = S("/workspace/source")
    /\ Last(prevArgv) = S(".") /\ argv[10] = S("/workspace/source")

\* C22: two calls of BuildahBuildCommand on the same configuration return
\* the same vector, whatever the time of each call.
C22_SameVector ==
    BuiltAgain => argv = prevArgv

\* Two calls on a configuration with an expiration duration, at different
\* times, differ in the expiration label.
C22_LabelDiffers ==
    /\ BuiltAgain /\ config.ImageExpiresAfter # Empty
    /\ Len(argv) = Len(prevArgv)
    /\ \E i \in 1..Len(argv) :
           /\ argv[i] # prevArgv[i]
           /\ argv[i][1] = "quay.expires-after="
           /\ \A j \in 1..Len(argv) : j # i => argv[j] = prevArgv[j]

\* An argument the inner shell rewrites: it holds a backquote, a newline or
\* a '$' followed by a name.
Rewritten(arg) ==
    \E i \in 1..Len(arg) :
        \/ arg[i] \in {Backquote, "\n"}
        \/ arg[i] = "$" /\ i < Len(arg) /\ arg[i + 1] \notin ShellMeta

\* C23: the inner shell, re-parsing the single string the wrapper passes to
\* it, reads exactly 'buildah' followed by the inner arguments, whatever
\* spaces or shell metacharacters they hold.
C23_RoundTrip ==
    BuiltUnshare =>
        \A val \in VarValues : ShellWords(Last(argv), val) = <<S("buildah")>> \o prevArgv

\* Arguments without '$name', backquote or newline survive the re-parsing,
\* spaces, double quotes and backslashes included.
C23_SafeRoundTrip ==
    (BuiltUnshare /\ \A i \in 1..Len(prevArgv) : ~Rewritten(prevArgv[i])) =>
        \A val \in VarValues : ShellWords(Last(argv), val) = <<S("buildah")>> \o prevArgv

\* An argument holding '$HOME' reaches the build tool with the variable's
\* value in its place.
C23_Expanded ==
    /\ BuiltUnshare /\ prevArgv = << <<"A=", "$", "HOME">> >>
    /\ ShellWords(Last(argv), S("/root")) = <<S("buildah"), <<"A=", "/root">> >>

\* The text of a string or of a list of strings, quoting and spacing aside.
Text(s) == SelectSeq(s, LAMBDA t : t \notin {"\"", "\\", " "})
TextOf(elems) == Text(Join(elems, <<>>))

\* C24: UnshareCommand returns exactly 15 elements whatever the number of
\* inner arguments: the unshare prefix with one user-id and one group-id
\* mapping '1,1,65536', '-w' and the context, '--mount', '--', 'sh', '-c',
\* and as the one last element 'buildah' and the inner arguments, in order.
C24_FifteenElements ==
    BuiltUnshare =>
        /\ Len(argv) = 15
        /\ SubSeq(argv, 1, 8) =
               <<S("unshare"), S("-Uf"), S("--keep-caps"), S("-r"),
                 S("--map-users"), S("1,1,65536"), S("--map-groups"), S("1,1,65536")>>
        /\ argv[9] = S("-w") /\ argv[10] = config.Context
        /\ SubSeq(argv, 11, 14) = <<S("--mount"), S("--"), S("sh"), S("-c")>>
        /\ Text(argv[15]) = TextOf(<<S("buildah")>> \o prevArgv)
        /\ argv[15][1] = "\"" /\ SubSeq(argv[15], 2, 2) = S("buildah")

\* C24 witness: two inner arguments, one of them with spaces, in one last
\* element.
C24_Witness ==
    /\ mode = "wrap" /\ BuiltUnshare /\ Len(argv) = 15
    /\ prevArgv = <<S("build"), <<"KEY=value", " ", "with", " ", "spaces">> >>

\* ------------------------------------------------------ duration parser
ParsedDuration == mode = "duration" /\ pc = "parseDuration"
IsNumber(n) == Len(n) \in 1..9 /\ \A i \in 1..Len(n) : DigitVal(n[i]) >= 0
\* The duration of n units of k minutes, zero when it is beyond a Duration.
UnitsOf(n, k) == IF DecVal(n) <= MaxMinutes \div k THEN Dur(DecVal(n) * k) ELSE Dur(0)
\* What the duration parser is to return for a string.
ExpectedDuration(s) ==
    LET n == SubSeq(s, 1, Len(s) - 1)
    IN IF s = Empty THEN Dur(0)
       ELSE IF IsNumber(n) /\ HasSuffix(s, "h") THEN UnitsOf(n, 60)
       ELSE IF IsNumber(n) /\ HasSuffix(s, "d") THEN UnitsOf(n, 24 * 60)
       ELSE IF IsNumber(n) /\ HasSuffix(s, "w") THEN UnitsOf(n, 7 * 24 * 60)
       ELSE IF ParseDuration(s).ok THEN ParseDuration(s).d
       ELSE Dur(0)

\* C25: the duration parser returns N hours for 'Nh', 24 N hours for 'Nd',
\* 7 x 24 N hours for 'Nw', the generic-grammar value for other recognised
\* suffixes and zero for empty or unparseable input, for every input string.
C25_ParsedValue ==
    ParsedDuration => parsed = ExpectedDuration(config.ImageExpiresAfter)

\* The five examples: '24h' 24 h, '2d' 48 h, '1w' 168 h, '' 0, 'bogus' 0.
C25_Examples ==
    ParsedDuration =>
        /\ config.ImageExpiresAfter = <<"2", "4", "h">> => parsed = Dur(24 * 60)
        /\ config.ImageExpiresAfter = <<"2", "d">> => parsed = Dur(48 * 60)
        /\ config.ImageExpiresAfter = <<"1", "w">> => parsed = Dur(168 * 60)
        /\ config.ImageExpiresAfter = Empty => parsed = Dur(0)
        /\ config.ImageExpiresAfter = <<"b", "o", "g", "u", "s">> => parsed = Dur(0)

\* '106752d' is 2562048 hours, beyond int64 nanoseconds: the product wraps.
C25_DaysWrap ==
    /\ ParsedDuration
    /\ config.ImageExpiresAfter = <<"1", "0", "6", "7", "5", "2", "d">>
    /\ parsed = [min |-> 106752 * 60, times |-> 24]

\* '1m2d' is read as 24 times the duration '1m2h'.
C25_MixedDays ==
    /\ ParsedDuration
    /\ config.ImageExpiresAfter = <<"1", "m", "2", "d">>
    /\ parsed = Dur(24 * 121)

\* The expiration labels of a build vector.
ExpirationLabels(v) ==
    SelectSeq(ValuesOf(v, S("--label"), 2), LAMBDA l : l[1] = "quay.expires-after=")

\* C26: when the expiration string is non-empty but parses to zero, the
\* build vector carries no expiration label.
C26_FailsOpen ==
    (BuiltBuild /\ config.ImageExpiresAfter # Empty
                /\ parseDuration(config.ImageExpiresAfter) = Dur(0)) =>
        ExpirationLabels(argv) = <<>>

\* With the expiration string 'bogus' the image is labelled to expire at the
\* time of the build.
C26_ExpiresNow ==
    /\ BuiltBuild /\ config.ImageExpiresAfter = <<"b", "o", "g", "u", "s">>
    /\ \E now \in Times :
           ExpirationLabels(argv) = << <<"quay.expires-after=">> \o FormatRFC3339(now, Dur(0)) >>

\* ------------------------------------------------------- revision resolver
\* The checkout attempts of checkoutRevision, by their rank in its order.
AttemptOps == {"checkout hash", "checkout branch", "checkout tag"}
AttemptRank(op) ==
    IF op = "checkout hash" THEN 1 ELSE IF op = "checkout branch" THEN 2 ELSE 3
Attempts == {i \in 1..Len(calls) : calls[i].op \in AttemptOps}
AttemptOf(op) == {i \in Attempts : calls[i].op = op}
FailedAttempt(op) == \E i \in AttemptOf(op) : ~calls[i].ok

\* C27: for a non-empty revision the attempts come in the order id, branch,
\* tag, each at most once: the id attempt is made only for a length within
\* 7..40, the branch attempt only after the id attempt failed or was not
\* made (and then the length is outside 7..40), the tag attempt only after
\* the branch attempt failed, and no attempt follows a successful one.
C27_OrderedAttempts ==
    (mode = "git" /\ config.Revision # Empty) =>
        /\ \A i, j \in Attempts :
             i < j => /\ AttemptRank(calls[i].op) < AttemptRank(calls[j].op)
                      /\ ~calls[i].ok
        /\ AttemptOf("checkout hash") # {} =>
             Len(config.Revision) >= 7 /\ Len(config.Revision) <= 40
        /\ AttemptOf("checkout branch") # {} =>
             IF Len(config.Revision) >= 7 /\ Len(config.Revision) <= 40
             THEN FailedAttempt("checkout hash")
             ELSE AttemptOf("checkout hash") = {}
        /\ AttemptOf("checkout tag") # {} => FailedAttempt("checkout branch")

\* A revision of id length whose id and branch attempts failed and whose tag
\* attempt succeeded.
C27_Witness ==
    /\ mode = "git" /\ pc = "Done"
    /\ Len(config.Revision) >= 7
    /\ Cardinality(Attempts) = 3
    /\ \E i \in AttemptOf("checkout tag") : calls[i].ok

\* A revision too short for an id, resolved as a branch at the first attempt.
C27_WitnessShort ==
    /\ mode = "git" /\ pc = "Done"
    /\ config.Revision # Empty /\ Len(config.Revision) < 7
    /\ Cardinality(Attempts) = 1
    /\ \E i \in AttemptOf("checkout branch") : calls[i].ok

\* Every interpretation of the revision was tried, as far as its length
\* allows, and none succeeded.
NoneSucceeded ==
    /\ mode = "git" /\ config.Revision # Empty
    /\ FailedAttempt("checkout tag")
    /\ \A i \in Attempts : ~calls[i].ok

\* C28: when no interpretation of a non-empty revision succeeds, Clone
\* fails, and its error is made of two messages that both end in the
\* revision string as configured: the one of Clone, and as its cause the one
\* of the resolver, which is no error of a checkout.
C28_ResolutionError ==
    NoneSucceeded =>
        /\ pc = "Failed"
        /\ err = << "failed to checkout revision " \o Str(config.Revision),
                    "failed to checkout revision: " \o Str(config.Revision) >>
        /\ \A op \in AttemptOps : Cause(err) # Cause(ToolErr(op))
        /\ gitResult.CommitSHA = Empty

\* A revision of id length that is no commit, branch or tag of the repository.
C28_Witness ==
    /\ NoneSucceeded
    /\ config.Revision = Missing
    /\ Cardinality(Attempts) = 3
    /\ pc = "Failed"

\* Clone returned a result for an empty revision.
ResolvedEmpty == mode = "git" /\ config.Revision = Empty /\ pc = "Done"

\* C29 as stated: for an empty revision no checkout is attempted and the
\* commit reported is the head of the default branch.
C29_DefaultBranchHead ==
    (mode = "git" /\ config.Revision = Empty) =>
        /\ Attempts = {}
        /\ pc = "Done" => gitResult.CommitSHA = TipOf(repo, repo.defaultBranch)

\* C29, amended: for an empty revision no checkout is attempted and the
\* commit reported is the one HEAD of the clone points to, which is the head
\* of the default branch when no refspec is configured and the head of the
\* reference the refspec names otherwise.
C29_CloneHead ==
    (mode = "git" /\ config.Revision = Empty) =>
        /\ Attempts = {}
        /\ pc = "Done" =>
             /\ gitResult.CommitSHA = repo.HEAD
             /\ repo.HEAD = IF config.Refspec = Empty
                            THEN TipOf(repo, repo.defaultBranch)
                            ELSE TipOf(repo, SubSeq(config.Refspec, 2, Len(config.Refspec)))

\* An empty revision with a refspec that names another branch than the
\* default one: the commit reported is the head of that branch.
C29_Witness ==
    /\ ResolvedEmpty
    /\ config.Refspec = RefspecRelease
    /\ gitResult.CommitSHA = Full2
    /\ Invoked("repo.Head")

\* An empty revision without refspec: the head of the default branch.
C29_WitnessDefault ==
    /\ ResolvedEmpty
    /\ config.Refspec = Empty
    /\ gitResult.CommitSHA = Full1

\* ------------------------------------------------------ index: no images
NoImages == mode = "index" /\ Len(config.Images) = 0

\* C30: an index run without images fails with the error "no images
\* provided for index creation", whatever AlwaysBuildIndex is: no external
\* step is ever invoked, no result file is written or changed, and the run
\* never completes.
C30_NoImagesFails ==
    NoImages =>
        /\ calls = <<>>
        /\ writes = <<>>
        /\ \A n \in ResultNames : results[n] \in {NoFile, Leftover}
        /\ pc \in {"Start", "Failed"}
        /\ pc = "Failed" => err = <<"no images provided for index creation">>

\* The run without images and with AlwaysBuildIndex set has failed.
C30_Witness ==
    /\ NoImages /\ config.AlwaysBuildIndex
    /\ pc = "Failed"

\* The same without the flag.
C30_WitnessNoFlag ==
    /\ NoImages /\ ~config.AlwaysBuildIndex
    /\ pc = "Failed"

\* ------------------------------------------------------- index: assembly
ManifestCreate == "buildah manifest create"
ManifestAdd == "buildah manifest add"
ManifestPush == "buildah manifest push"
ManifestRm == "buildah manifest rm"
IndexInspect == "skopeo inspect"

\* Execute has chosen its branch.
BranchTaken == mode = "index" /\ pc # "Start"
\* The branch chosen is the assembly of a manifest list.
Assembling == pc = "ManifestCreate" \/ Invoked(ManifestCreate)

\* C31: with at least one image, and AlwaysBuildIndex set or more than one
\* image, the run takes the assembly branch.
C31_FlagAssembles ==
    (BranchTaken /\ Len(config.Images) >= 1
        /\ (config.AlwaysBuildIndex \/ Len(config.Images) > 1)) => Assembling

\* With AlwaysBuildIndex set and one image the run completes without a
\* manifest list: the image is passed through.
C31_PassedThrough ==
    /\ mode = "index" /\ pc = "Done"
    /\ config.AlwaysBuildIndex /\ Len(config.Images) = 1
    /\ ~Invoked(ManifestCreate)
    /\ results["IMAGE_URL"] = <<"repo">>

\* ------------------------------------------------- index: single image
\* The positions of '@' in an image reference.
AtSigns(ref) == {k \in 1..Len(ref) : ref[k] = "@"}
\* The run has one image, of the form reference@digest.
SoleDigestRef ==
    /\ mode = "index" /\ Len(config.Images) = 1
    /\ Cardinality(AtSigns(config.Images[1])) = 1
PartBefore(ref) == SubSeq(ref, 1, (CHOOSE k \in AtSigns(ref) : TRUE) - 1)
PartAfter(ref) == SubSeq(ref, (CHOOSE k \in AtSigns(ref) : TRUE) + 1, Len(ref))

\* C32: a run whose only image is reference@digest invokes no external
\* step; IMAGE_URL, once written, holds the part before '@', IMAGE_DIGEST
\* the part after it, and a run that completes has written both.
C32_SplitReference ==
    SoleDigestRef =>
        /\ calls = <<>>
        /\ Written("IMAGE_URL") => results["IMAGE_URL"] = PartBefore(config.Images[1])
        /\ Written("IMAGE_DIGEST") => results["IMAGE_DIGEST"] = PartAfter(config.Images[1])
        /\ pc = "Done" => Written("IMAGE_URL") /\ Written("IMAGE_DIGEST")

\* 'repo@sha256:abc' has yielded 'repo' and 'sha256:abc'.
C32_Witness ==
    /\ SoleDigestRef /\ pc = "Done"
    /\ config.Images[1] = <<"repo", "@", "sha256:abc">>
    /\ results["IMAGE_URL"] = <<"repo">>
    /\ results["IMAGE_DIGEST"] = <<"sha256:abc">>

\* ------------------------------------------- index: digest resolution
IndexInspectFailed(i) == calls[i].op = IndexInspect /\ ~calls[i].ok

\* C33: in the index pipeline a failed inspect, of the only image or of the
\* pushed manifest list, leaves the digest empty and the run alive: it goes
\* on to the writes, it can only fail in one of them, and when it completes
\* IMAGE_URL is written and IMAGE_DIGEST holds the empty string.
C33_IndexDigestNotFatal ==
    (mode = "index") =>
        \A i \in 1..Len(calls) :
            IndexInspectFailed(i) =>
                /\ digest = Empty
                /\ pc \in {"ManifestRm", "Expiration", "WriteIndexURL",
                           "WriteIndexDigest", "Done", "Failed"}
                /\ pc = "Failed" =>
                      err \in {<<"failed to write IMAGE_URL result", "exit: write">>,
                               <<"failed to write IMAGE_DIGEST result", "exit: write">>}
                /\ pc = "Done" =>
                      /\ Written("IMAGE_URL")
                      /\ Written("IMAGE_DIGEST")
                      /\ results["IMAGE_DIGEST"] = Empty

\* After a successful push the inspect failed, and the run completed.
C33_Witness ==
    /\ mode = "index" /\ pc = "Done"
    /\ \E i, j \in 1..Len(calls) :
         /\ i < j
         /\ calls[i].op = ManifestPush /\ calls[i].ok
         /\ IndexInspectFailed(j)
    /\ results["IMAGE_URL"] = config.ImageURL
    /\ results["IMAGE_DIGEST"] = Empty

\* The inspect of the only image failed, and the run completed.
C33_WitnessSingle ==
    /\ mode = "index" /\ pc = "Done"
    /\ Len(config.Images) = 1
    /\ \E i \in 1..Len(calls) : IndexInspectFailed(i)
    /\ results["IMAGE_URL"] = config.Images[1]
    /\ results["IMAGE_DIGEST"] = Empty

\* ------------------------------------------------- index: the protocol
\* The steps of buildImageIndex, by their rank in the protocol.
ProtocolOps == {ManifestCreate, ManifestAdd, ManifestPush, IndexInspect}
ProtocolRank(op) ==
    IF op = ManifestCreate THEN 1 ELSE IF op = ManifestAdd THEN 2
    ELSE IF op = ManifestPush THEN 3 ELSE 4
\* The calls to 'buildah manifest add', in the order they were made.
AddCalls == SelectSeq(calls, LAMBDA c : c.op = ManifestAdd)
HandleOf(url) == url \o <<"-index">>

\* C34: in an assembling run the steps come in the order create, adds,
\* push, inspect, each after the success of the one before; create, push
\* and the adds name the handle <ImageURL>-index; the k-th add is for the
\* k-th image; all images are added before the push; and once a create, an
\* add or the push failed, it is the last step of the run, which has failed
\* with an error that, for an add, holds the image reference.
C34_Protocol ==
    (mode = "index" /\ Assembling) =>
        /\ \A i \in 1..Len(calls) :
             /\ calls[i].op \in ProtocolOps \cup {ManifestRm}
             /\ calls[i].op \in {ManifestCreate, ManifestPush, ManifestRm} =>
                   calls[i].arg = HandleOf(config.ImageURL)
        /\ \A i, j \in 1..Len(calls) :
             (i < j /\ calls[j].op \in ProtocolOps) =>
                 /\ calls[i].op \in ProtocolOps
                 /\ ProtocolRank(calls[i].op) <= ProtocolRank(calls[j].op)
                 /\ calls[i].ok
        /\ CountOp(ManifestCreate) <= 1 /\ CountOp(ManifestPush) <= 1
        /\ CountOp(IndexInspect) <= 1
        /\ Len(AddCalls) <= Len(config.Images)
        /\ \A k \in 1..Len(AddCalls) : AddCalls[k].arg = config.Images[k]
        /\ Invoked(ManifestPush) => Len(AddCalls) = Len(config.Images)
        /\ \A i \in 1..Len(calls) :
             (calls[i].op \in {ManifestCreate, ManifestAdd, ManifestPush} /\ ~calls[i].ok) =>
                 /\ i = Len(calls)
                 /\ pc = "Failed"
                 /\ err = << "failed to build image index",
                             IF calls[i].op = ManifestCreate THEN "failed to create manifest"
                             ELSE IF calls[i].op = ManifestPush THEN "failed to push manifest"
                             ELSE "failed to add image " \o Str(calls[i].arg) \o " to manifest",
                             "exit: " \o calls[i].op >>

\* The add of the second of two images failed: one successful add before
\* it, nothing after it.
C34_Witness ==
    /\ mode = "index" /\ pc = "Failed"
    /\ Len(config.Images) = 2 /\ config.Images[1] # config.Images[2]
    /\ Len(AddCalls) = 2
    /\ AddCalls[1].ok /\ ~AddCalls[2].ok
    /\ ~Invoked(ManifestPush)

\* The whole protocol went through.
C34_WitnessComplete ==
    /\ mode = "index" /\ pc = "Done"
    /\ Len(AddCalls) = 2
    /\ Invoked(ManifestPush) /\ Invoked(IndexInspect)

\* --------------------------------------------------- index: the cleanup
PushSucceeded == \E i \in 1..Len(calls) : calls[i].op = ManifestPush /\ calls[i].ok
Ended == pc \in {"Done", "Failed"}
\* The digest the inspect call c stands for.
DigestFrom(c) == IF c.ok THEN TrimSpace(c.out.text) ELSE Empty

\* C35: 'buildah manifest rm' is invoked at most once, only after a
\* successful push and directly after the inspect, and exactly once in a
\* run that has ended after a successful push; whatever its exit status,
\* the run goes on to the writes with the URL of the index and the digest
\* the inspect gave, can only fail in a write, and when it completes these
\* two values are the results.
C35_CleanupOnce ==
    (mode = "index") =>
        /\ CountOp(ManifestRm) <= 1
        /\ (Ended /\ PushSucceeded) => CountOp(ManifestRm) = 1
        /\ ~PushSucceeded => CountOp(ManifestRm) = 0
        /\ \A i \in 1..Len(calls) :
             calls[i].op = ManifestRm =>
                 /\ i = Len(calls) /\ i >= 3
                 /\ calls[i - 1].op = IndexInspect
                 /\ calls[i - 2].op = ManifestPush /\ calls[i - 2].ok
                 /\ pc \in {"Expiration", "WriteIndexURL", "WriteIndexDigest",
                            "Done", "Failed"}
                 /\ resultURL = config.ImageURL
                 /\ digest = DigestFrom(calls[i - 1])
                 /\ pc = "Failed" =>
                       err \in {<<"failed to write IMAGE_URL result", "exit: write">>,
                                <<"failed to write IMAGE_DIGEST result", "exit: write">>}
                 /\ pc = "Done" =>
                       /\ results["IMAGE_URL"] = config.ImageURL
                       /\ results["IMAGE_DIGEST"] = DigestFrom(calls[i - 1])

\* The cleanup failed and the run completed with the digest of the index.
C35_Witness ==
    /\ mode = "index" /\ pc = "Done" /\ Len(calls) >= 1
    /\ calls[Len(calls)].op = ManifestRm /\ ~calls[Len(calls)].ok
    /\ results["IMAGE_DIGEST"] = <<"sha256:def">>

\* The push failed and the run ended without a cleanup.
C35_WitnessNoCleanup ==
    /\ mode = "index" /\ pc = "Failed" /\ Len(calls) >= 1
    /\ calls[Len(calls)].op = ManifestPush /\ ~calls[Len(calls)].ok
    /\ ~Invoked(ManifestRm)

CreateSucceeded ==
    \E i \in 1..Len(calls) : calls[i].op = ManifestCreate /\ calls[i].ok

\* C36: a run that created the manifest list and has ended, completed or
\* failed, has invoked 'buildah manifest rm'.
C36_HandleRemoved ==
    (mode = "index" /\ Ended /\ CreateSucceeded) => Invoked(ManifestRm)

\* The list was created, an add failed, and the run ended without ever
\* invoking the removal.
C36_HandleLeft ==
    /\ mode = "index" /\ pc = "Failed" /\ CreateSucceeded
    /\ \E i \in 1..Len(calls) : calls[i].op = ManifestAdd /\ ~calls[i].ok
    /\ ~Invoked(ManifestRm)

\* ------------------------------------------------- index: expiration
\* C37: the step of the index run that handles ImageExpiresAfter invokes
\* nothing and changes nothing but the position of the run, whatever the
\* expiration string: calls, results, digest, URL and error are as they
\* were, and the run goes on to the writes.
C37_ExpirationInert ==
    [][(mode = "index" /\ pc = "Expiration") =>
          /\ pc' = "WriteIndexURL"
          /\ UNCHANGED <<calls, results, writes, digest, resultURL, err>>]_vars

\* A run with a non-zero expiration has completed: no call but those of the
\* assembly, and the results are the URL and digest of the index.
C37_Witness ==
    /\ mode = "index" /\ pc = "Done"
    /\ Index_parseDuration(config.ImageExpiresAfter) = Dur(48 * 60)
    /\ Len(config.Images) = 2
    /\ Len(calls) = Len(config.Images) + 4
    /\ \A i \in 1..Len(calls) : calls[i].op \in ProtocolOps \cup {ManifestRm}
    /\ results["IMAGE_URL"] = config.ImageURL
    /\ results["IMAGE_DIGEST"] = <<"sha256:def">>

\* --------------------------------------------------------------- prefetch
FetchDeps == "cachi2 fetch-deps"
GenerateEnv == "cachi2 generate-env"
InjectFiles == "cachi2 inject-files"
PrefetchRank(op) ==
    IF op = FetchDeps THEN 1 ELSE IF op = GenerateEnv THEN 2 ELSE 3
PrefetchMessage(op) ==
    IF op = FetchDeps THEN "cachi2 fetch-deps failed"
    ELSE IF op = GenerateEnv THEN "failed to generate environment file"
    ELSE "failed to inject files"

\* C38: the cachi2 operations are invoked at most once each, in the order
\* fetch-deps, generate-env, inject-files, each directly after the success
\* of the one before; a failed one is the last step of the run, which has
\* failed with the error of a failed prefetch; and after a failed
\* setupAuthentication fetch-deps has been invoked all the same, unless the
\* config file could not be written.
C38_PrefetchOrder ==
    (mode = "build") =>
        /\ \A op \in PrefetchOps : CountOp(op) <= 1
        /\ \A j \in 1..Len(calls) :
             (calls[j].op \in PrefetchOps /\ calls[j].op # FetchDeps) =>
                 /\ j >= 2
                 /\ calls[j - 1].op \in PrefetchOps
                 /\ PrefetchRank(calls[j - 1].op) + 1 = PrefetchRank(calls[j].op)
                 /\ calls[j - 1].ok
        /\ \A i \in 1..Len(calls) :
             (calls[i].op \in PrefetchOps /\ ~calls[i].ok) =>
                 /\ i = Len(calls)
                 /\ pc = "Failed"
                 /\ err = <<"dependency prefetch failed", PrefetchMessage(calls[i].op),
                            "exit: " \o calls[i].op>>
        /\ authSetup = "failed" =>
             \/ Invoked(FetchDeps)
             \/ /\ pc = "Failed"
                /\ err = <<"dependency prefetch failed", "failed to write config file",
                           "exit: write">>

\* The credentials could not be set up, fetch-deps and generate-env ran, and
\* inject-files failed the run.
C38_Witness ==
    /\ mode = "build" /\ pc = "Failed" /\ Len(calls) >= 3
    /\ authSetup = "failed"
    /\ calls[Len(calls)].op = InjectFiles /\ ~calls[Len(calls)].ok
    /\ calls[Len(calls) - 1].op = GenerateEnv
    /\ calls[Len(calls) - 2].op = FetchDeps

\* The credentials could not be set up and the run completed with a build.
C38_WitnessDone ==
    /\ mode = "build" /\ pc = "Done"
    /\ authSetup = "failed"
    /\ Invoked(InjectFiles) /\ Invoked("unshare buildah build")

\* ------------------------------------------------ revision resolver: result
\* C39: when Clone returns a result, the commit it reports is the commit HEAD
\* of the working tree points to.
C39_ReportsHead ==
    (mode = "git" /\ pc = "Done") => gitResult.CommitSHA = repo.HEAD

\* A branch name of seven letters was accepted by the id attempt: the
\* working tree is at the head of master and the commit reported is the
\* zero hash.
C39_ZeroHashReported ==
    /\ mode = "git" /\ pc = "Done"
    /\ config.Revision = Release
    /\ \E i \in AttemptOf("checkout hash") : calls[i].ok
    /\ gitResult.CommitSHA = ZeroHash
    /\ repo.HEAD = Full1

\* Resolved by branch, by tag or with an empty revision, and by a full id,
\* the commit reported is HEAD.
C39_OtherwiseHead ==
    (mode = "git" /\ pc = "Done"
        /\ (AttemptOf("checkout hash") = {} \/ FailedAttempt("checkout hash")
              \/ Len(hexDecode(config.Revision)) = HashLen)) =>
        gitResult.CommitSHA = repo.HEAD

\* ------------------------------------------------------ build: commit label
BuildInvoked == mode = "build" /\ Invoked("unshare buildah build")
CommitLabel(sha) == <<"io.konflux.commit=">> \o sha

\* C40: once the build is invoked, the commit result is written and holds
\* the commit of the clone, and the labels of the build vector are exactly
\* one, io.konflux.commit=<that commit>, whatever Config.CommitSHA is.
C40_LabelIsClonedCommit ==
    BuildInvoked =>
        /\ Written("commit")
        /\ results["commit"] = gitResult.CommitSHA
        /\ ValuesOf(prevArgv, S("--label"), 2) = <<CommitLabel(results["commit"])>>

\* A build was invoked in a run configured with a commit id of its own,
\* which is not the one of the clone.
C40_Witness ==
    /\ BuildInvoked
    /\ config.CommitSHA = S("3333333")
    /\ results["commit"] = S("1111111")
    /\ ValuesOf(prevArgv, S("--label"), 2) = <<CommitLabel(S("1111111"))>>

====
